---- MODULE Spec2Model ----
(***************************************************************************)
(* Survey ingestion service: the upload-event front door (main.py), the    *)
(* archive pipeline (survey_processor.py) and the idempotency ledger       *)
(* (survey_tracker.py over bigquery_client.py).                            *)
(*                                                                         *)
(* Strings the code inspects (suffix tests, substring tests, SQL text) are *)
(* sequences of tokens, so that the tests are computed, not assumed.       *)
(***************************************************************************)
EXTENDS Integers, Sequences, FiniteSets, TLC

(***************************************************************************)
(* Bounds of the model                                                     *)
(***************************************************************************)
MaxEvents == 2
MaxMarks == 2

(***************************************************************************)
(* Program constants                                                       *)
(***************************************************************************)
Cooldown == 60

\* Request handlers that may run at the same time (threads of one process).
Procs == {1, 2}

Range(s) == {s[i] : i \in 1..Len(s)}

Last(s) == s[Len(s)]

Contains(s, tok) == \E i \in 1..Len(s) : s[i] = tok

EndsWith(s, tok) == Len(s) > 0 /\ Last(s) = tok

(***************************************************************************)
(* Inputs: the objects of the bucket and the CSV entries of the archives   *)
(***************************************************************************)
CsvA == <<"a [Study 101] 2025-03-17T", ".csv">>
CsvBad == <<"bad", ".csv">>
CsvHdr == <<"header only", ".csv">>
CsvC == <<"c", ".csv">>
CsvQ == <<"it", "'", "s", ".csv">>
Readme == <<"readme", ".txt">>

Names == {CsvA, CsvBad, CsvHdr, CsvC, CsvQ}

\* What pandas makes of each CSV: whether it can be read and transformed,
\* how many response rows it holds, and which question tables come out
\* non-empty (with their number of aggregated rows).
Csv ==
  (CsvA :> [parses |-> TRUE, rows |-> 1, questions |-> <<"awareness">>, qrows |-> 1])
  @@ (CsvBad :> [parses |-> FALSE, rows |-> 0, questions |-> <<>>, qrows |-> 0])
  @@ (CsvHdr :> [parses |-> TRUE, rows |-> 0, questions |-> <<>>, qrows |-> 0])
  @@ (CsvC :> [parses |-> TRUE, rows |-> 2, questions |-> <<>>, qrows |-> 0])
  @@ (CsvQ :> [parses |-> TRUE, rows |-> 1, questions |-> <<>>, qrows |-> 0])

BrandZip == <<"[Lemonade] MMM _ ", "Brand Tracker", " - Laredo, TX", ".zip">>
BrandZip2 == <<"[Lemonade] MMM _ ", "Brand Tracker", " - Lima, OH", ".zip">>
CustomZip == <<"[Lemonade] MMM - Eugene, OR", ".zip">>
EmptyZip == <<"[Lemonade] MMM - Dayton, OH", ".zip">>
CorruptZip == <<"[Lemonade] MMM - Toledo, OH", ".zip">>
TextFile == <<"notes", ".txt">>

ObjectNames == {BrandZip, BrandZip2, CustomZip, EmptyZip, CorruptZip, TextFile}

\* The objects an event can name, with the entries each unpacks to
\* (opens = FALSE: the bytes are not a ZIP archive).
Bucket ==
  (BrandZip :> [opens |-> TRUE, entries |-> <<CsvBad, CsvA>>])
  @@ (BrandZip2 :> [opens |-> TRUE, entries |-> <<CsvA>>])
  @@ (CustomZip :> [opens |-> TRUE, entries |-> <<Readme, CsvC, CsvHdr>>])
  @@ (EmptyZip :> [opens |-> TRUE, entries |-> <<Readme>>])
  @@ (CorruptZip :> [opens |-> FALSE, entries |-> <<>>])
  @@ (TextFile :> [opens |-> FALSE, entries |-> <<>>])

NoBucket == ""
NoName == <<>>

\* What request.get_json() makes of the request body: a JSON object, nothing
\* (no or empty payload), or a value the handler cannot use as an object
\* (get_json or the first .get on it raises).
Payloads == {"object", "none", "invalid"}

\* Event payloads: well-formed ones, one without a bucket, one without a
\* name, one without a body and one whose body is not a JSON object.
Events ==
  {[bucket |-> "surveys", name |-> n, json |-> "object"] : n \in ObjectNames \cup {NoName}}
  \cup {[bucket |-> NoBucket, name |-> BrandZip, json |-> "object"]}
  \cup {[bucket |-> NoBucket, name |-> NoName, json |-> j] : j \in Payloads \ {"object"}}

SurveyTypes == {"BRAND_TRACKER", "CUSTOM"}

TableNames == {"brand_responses", "awareness", "consideration", "intent",
               "custom_responses", "top_of_mind", "knowledge"}

LedgerTables == {"processed_brand_surveys", "processed_custom_surveys"}

UploadOutcomes == {"ok", "fallback", "raise"}

\* Object storage at the time of the download: the object is gone, the
\* download fails, or the bytes arrive.
FetchOutcomes == {"missing", "download_error", "ok"}

VARIABLES
  now,                  \* clock reading at the latest upload event
  events,               \* number of upload events received
  recent_files,         \* main.recent_files: file key -> time of last accepted event
  ledger,               \* rows of the two processed_* tables, per filename
  tables,               \* rows of the response and question tables, per source CSV
  pc,                   \* position of each request handler
  req,                  \* the event payload being handled
  survey_type,          \* process_uploaded_file.survey_type
  csv_files,            \* process_zip_with_individual_tracking.csv_files
  idx,                  \* position of the for loop over csv_files
  qidx,                 \* position of the loop over the question tables
  csv_files_processed,
  csv_files_skipped,
  tables_updated,
  records_added,
  result,               \* what process_uploaded_file returned
  response,             \* what the front door answered
  ops,                  \* history: collaborator operations of this handling
  checked,              \* history: the ledger checks of this handling, with their answers
  parsed,               \* history: CSVs of this run whose per-CSV block was entered
  appends_done,         \* history: appends of the current CSV that returned
  full,                 \* history: every append of the current CSV kept all columns
  fully_appended,       \* history: CSVs of this run that reached the ledger call after full appends
  raised_on,            \* history: CSVs of this run whose processing raised, with the step
  clean_done,           \* history: archives a completed run of which appended every CSV
  after_clean,          \* history: this handling started after such a run of the same archive
  last_check,           \* SpecLedger: the latest direct is_processed call and its answer
  marked,               \* SpecLedger: the mark_processed calls made: key, whether it wrote, how it ended
  webhook_url,          \* SlackNotifier.webhook_url
  enabled,              \* SlackNotifier.enabled
  sends,                \* SpecNotify: number of send_* calls made
  notifications,        \* messages the webhook has accepted, in order
  last_send,            \* SpecNotify: the latest send_* call and how it ended
  uploads,              \* SpecUpload: number of upload_to_bigquery calls made
  last_upload,          \* SpecUpload: the latest upload_to_bigquery call and how it ended
  stage,                \* SpecAggregate: how far the CSV has come
  sheet,                \* SpecAggregate: the frame pd.read_csv made of the CSV
  responses,            \* SpecAggregate: the response frame (brand_data / custom_data)
  question_tables,      \* SpecAggregate: the aggregated frames, by table name
  original_filename,    \* SpecAggregate: the name of the archive the CSV came in
  dma,                  \* SpecAggregate: process_zip_with_individual_tracking.dma
  dma_info,             \* SpecAggregate: process_zip_with_individual_tracking.dma_info
  cleaner_op,           \* SpecClean: the cleaner method called last
  cleaner_in,           \* SpecClean: the raw answer it was called with
  cleaner_pieces,       \* SpecClean: the pieces the raw answer was written from
  cleaned_answer,       \* SpecClean: what clean_brand_response returned
  brand_list,           \* SpecClean: what split_multiple_brands returned
  hash_seed,            \* SpecStudy: the key of str hashing in the running interpreter
  interpreters,         \* SpecStudy: number of interpreters started so far
  study_ids             \* SpecStudy: the study ids returned, by CSV name and interpreter

front == <<now, events, recent_files>>
store == <<ledger, tables>>
locals == <<pc, req, survey_type, csv_files, idx, qidx, csv_files_processed,
            csv_files_skipped, tables_updated, records_added, result, response>>
history == <<ops, checked, parsed, appends_done, full, fully_appended, raised_on, clean_done, after_clean>>
direct == <<last_check, marked>>
notify == <<webhook_url, enabled, sends, notifications, last_send>>
upload == <<uploads, last_upload>>
aggregate == <<stage, sheet, responses, question_tables, original_filename, dma, dma_info>>
cleaning == <<cleaner_op, cleaner_in, cleaner_pieces, cleaned_answer, brand_list>>
study == <<hash_seed, interpreters, study_ids>>
aside == <<notify, upload, aggregate, cleaning, study>>
vars == <<front, store, locals, history, direct, aside>>


(***************************************************************************)
(* Idempotency ledger: SurveyTracker over BigqueryClient                   *)
(***************************************************************************)
LedgerTable(stype) ==
  IF stype = "BRAND_TRACKER" THEN "processed_brand_surveys"
  ELSE "processed_custom_surveys"

\* Number of rows of a ledger table whose filename column equals filename.
LedgerRows(table_id, filename) ==
  IF filename \in DOMAIN ledger[table_id] THEN ledger[table_id][filename] ELSE 0

\* The filter is_processed hands to read_table: the filename is put between
\* two quote characters as it is.
Conditions(filename) == <<"filename = ", "'">> \o filename \o <<"'">>

\* BigqueryClient.read_table: runs SELECT * ... WHERE conditions.  The string
\* literal of the filter ends at the first quote character after the opening
\* one; text left over after it makes the query fail.  `up` says whether the
\* table store answers.
read_table(table_id, conditions, up) ==
  LET body == SubSeq(conditions, 3, Len(conditions))
      q == CHOOSE i \in 1..Len(body) :
             body[i] = "'" /\ \A j \in 1..(i - 1) : body[j] # "'"
      literal == SubSeq(body, 1, q - 1)
      trailing == SubSeq(body, q + 1, Len(body))
  IN  IF ~up \/ trailing # <<>>
      THEN [raised |-> TRUE, rows |-> 0]
      ELSE [raised |-> FALSE,
            rows |-> LedgerRows(table_id, literal)]

is_processed_true_on_error(filename, stype, up) ==
  LET df == read_table(LedgerTable(stype), Conditions(filename), up)
  IN  IF df.raised THEN TRUE ELSE df.rows > 0

is_processed_any_length(filename, stype, up) ==
  LET df == read_table(LedgerTable(stype), Conditions(filename), up)
  IN  IF df.raised THEN FALSE ELSE df.rows >= 0

is_processed_more_than_one(filename, stype, up) ==
  LET df == read_table(LedgerTable(stype), Conditions(filename), up)
  IN  IF df.raised THEN FALSE ELSE df.rows > 1

\* SurveyTracker.is_processed: any row found means processed; an exception
\* means "not processed".
is_processed(filename, stype, up) ==
  LET df == read_table(LedgerTable(stype), Conditions(filename), up)
  IN  IF df.raised THEN FALSE ELSE df.rows > 0

\* BigqueryClient.load_table on a ledger table: one more row for filename.
load_ledger_row(table_id, filename) ==
  [ledger EXCEPT ![table_id] = (filename :> LedgerRows(table_id, filename) + 1) @@ @]

\* SurveyTracker.mark_processed: the ledger after the call.  A failed append
\* is logged and swallowed, the call returns normally either way.
mark_processed(filename, stype, metrics, up) ==
  IF up THEN load_ledger_row(LedgerTable(stype), filename) ELSE ledger

mark_processed_raises_on_failure(filename, stype, metrics, up) == ~up

\* SurveyTracker.mark_processed, 152 and 189-190: the body is one try block
\* whose handler catches every Exception and only logs it, so no failure of
\* the body reaches the caller.
mark_processed_raises(filename, stype, metrics, up) == FALSE

\* Parameters mark_processed requires, and the keyword arguments the pipeline
\* passes at its call site.
MarkProcessedParams == {"filename", "survey_type", "metrics"}

PipelineMarkArgs == {"filename", "survey_type"}

\* Python binds a call only when every required parameter is supplied;
\* otherwise the call raises TypeError before the body runs.
CallBinds(params, args) == params \subseteq args

(***************************************************************************)
(* Front door: handle_cloud_storage_trigger                                *)
(***************************************************************************)
FileKey(ev) == <<ev.bucket, "/">> \o ev.name

InCooldown_inclusive(file_key, current_time) ==
  /\ file_key \in DOMAIN recent_files
  /\ current_time - recent_files[file_key] <= Cooldown

\* main.py 137-141: the key was accepted less than 60 seconds ago.
InCooldown(file_key, current_time) ==
  /\ file_key \in DOMAIN recent_files
  /\ current_time - recent_files[file_key] < Cooldown

\* Time that passes between the previous upload event and this one
\* (seconds): an event for a key seen before comes just inside or just
\* outside the cooldown window, any other event a full window later.
Delays(ev) ==
  IF FileKey(ev) \in DOMAIN recent_files THEN {Cooldown - 1, Cooldown} ELSE {Cooldown}

Idle == {p \in Procs : pc[p] = "idle"}

\* The handler that takes the next event (handlers are interchangeable).
Handler == CHOOSE p \in Idle : \A q \in Idle : p <= q

NoResult == [status |-> "none", reason |-> "none"]

NoResponse == [code |-> 0, kind |-> "none"]

NoRecords == <<>>

NoCheck == [filename |-> NoName, stype |-> "none", up |-> FALSE, answer |-> FALSE]

NoSend == [kind |-> "none", enabled |-> FALSE, args |-> "none", transport |-> "none",
           raised |-> FALSE, value |-> FALSE, posted |-> FALSE]

NoWebhook == ""

NoInfo == [Group_type |-> <<>>, Group |-> <<>>]

NoSheet == [survey_type |-> "none", weights |-> FALSE, rows |-> <<>>]

NoUpload == [table |-> "none", rows |-> 0, columns |-> {}, first |-> "none",
             second |-> "none", calls |-> <<>>, raised |-> FALSE, error |-> "none",
             value |-> 0]

NoRequest == [bucket |-> NoBucket, name |-> NoName, json |-> "none"]

MissingFields_bucket_only(ev) == ev.json = "none" \/ ev.bucket = NoBucket

\* main.py 117 and 126: no payload, or no bucket, or no object name.
MissingFields(ev) == ev.json = "none" \/ ev.bucket = NoBucket \/ ev.name = NoName

\* handle_cloud_storage_trigger up to the call of process_uploaded_file:
\* an event arrives d seconds after the previous one.
Receive(ev, d) ==
  /\ events < MaxEvents
  /\ Idle # {}
  /\ LET p == Handler
         current_time == now + d
         file_key == FileKey(ev)
     IN  /\ events' = events + 1
         /\ now' = current_time
         /\ req' = [req EXCEPT ![p] = ev]
         /\ IF ev.json = "invalid"
            THEN /\ response' = [response EXCEPT ![p] = [code |-> 500, kind |-> "internal"]]
                 /\ pc' = [pc EXCEPT ![p] = "done"]
                 /\ UNCHANGED <<recent_files, after_clean>>
            ELSE IF MissingFields(ev)
            THEN /\ response' = [response EXCEPT ![p] = [code |-> 400, kind |-> "bad_request"]]
                 /\ pc' = [pc EXCEPT ![p] = "done"]
                 /\ UNCHANGED <<recent_files, after_clean>>
            ELSE IF InCooldown(file_key, current_time)
            THEN /\ response' = [response EXCEPT ![p] = [code |-> 200, kind |-> "duplicate"]]
                 /\ pc' = [pc EXCEPT ![p] = "done"]
                 /\ UNCHANGED <<recent_files, after_clean>>
            ELSE /\ recent_files' =
                      [k \in DOMAIN recent_files \cup {file_key} |->
                         IF k = file_key THEN current_time ELSE recent_files[k]]
                 /\ after_clean' = [after_clean EXCEPT ![p] = ev.name \in clean_done]
                 /\ pc' = [pc EXCEPT ![p] = "fetch"]
                 /\ UNCHANGED response
  /\ UNCHANGED <<store, survey_type, csv_files, idx, qidx, csv_files_processed,
                 csv_files_skipped, tables_updated, records_added, result, ops, checked,
                 parsed, appends_done, full, fully_appended, raised_on, clean_done,
                 direct, aside>>

\* The response has been sent and the handler returns: its locals are gone.
Close(p) ==
  /\ pc[p] = "done"
  /\ pc' = [pc EXCEPT ![p] = "idle"]
  /\ req' = [req EXCEPT ![p] = NoRequest]
  /\ survey_type' = [survey_type EXCEPT ![p] = "none"]
  /\ csv_files' = [csv_files EXCEPT ![p] = <<>>]
  /\ idx' = [idx EXCEPT ![p] = 0]
  /\ qidx' = [qidx EXCEPT ![p] = 0]
  /\ csv_files_processed' = [csv_files_processed EXCEPT ![p] = <<>>]
  /\ csv_files_skipped' = [csv_files_skipped EXCEPT ![p] = <<>>]
  /\ tables_updated' = [tables_updated EXCEPT ![p] = {}]
  /\ records_added' = [records_added EXCEPT ![p] = NoRecords]
  /\ result' = [result EXCEPT ![p] = NoResult]
  /\ response' = [response EXCEPT ![p] = NoResponse]
  /\ ops' = [ops EXCEPT ![p] = {}]
  /\ checked' = [checked EXCEPT ![p] = <<>>]
  /\ parsed' = [parsed EXCEPT ![p] = {}]
  /\ appends_done' = [appends_done EXCEPT ![p] = 0]
  /\ full' = [full EXCEPT ![p] = TRUE]
  /\ fully_appended' = [fully_appended EXCEPT ![p] = {}]
  /\ raised_on' = [raised_on EXCEPT ![p] = {}]
  /\ after_clean' = [after_clean EXCEPT ![p] = FALSE]
  /\ UNCHANGED <<front, store, clean_done, direct, aside>>

(***************************************************************************)
(* process_uploaded_file                                                   *)
(***************************************************************************)
Respond_always_ok(p, status, reason) ==
  /\ pc' = [pc EXCEPT ![p] = "done"]
  /\ result' = [result EXCEPT ![p] = [status |-> status, reason |-> reason]]
  /\ response' = [response EXCEPT ![p] =
       IF status = "skipped" THEN [code |-> 200, kind |-> "skipped"]
       ELSE [code |-> 200, kind |-> "processed"]]

\* main.py 88-103 and 153-160: the result of the run becomes the response.
Respond(p, status, reason) ==
  /\ pc' = [pc EXCEPT ![p] = "done"]
  /\ result' = [result EXCEPT ![p] = [status |-> status, reason |-> reason]]
  /\ response' = [response EXCEPT ![p] =
       IF status = "success" THEN [code |-> 200, kind |-> "processed"]
       ELSE IF status = "skipped" THEN [code |-> 200, kind |-> "skipped"]
       ELSE [code |-> 500, kind |-> "error"]]

IsZip_any(file_name) == TRUE

\* main.py 53: file_name.endswith('.zip')
IsZip(file_name) == EndsWith(file_name, ".zip")

\* main.py 51-77: zip gate, survey type, existence test and download.
Fetch(p, storage) ==
  /\ pc[p] = "fetch"
  /\ LET file_name == req[p].name
     IN  IF ~IsZip(file_name)
         THEN /\ Respond(p, "skipped", "not_zip_file")
              /\ UNCHANGED <<survey_type, ops>>
         ELSE /\ survey_type' = [survey_type EXCEPT ![p] =
                   IF Contains(file_name, "Brand Tracker") THEN "BRAND_TRACKER" ELSE "CUSTOM"]
              /\ IF storage = "missing"
                 THEN /\ Respond(p, "error", "file_not_found")
                      /\ ops' = [ops EXCEPT ![p] = @ \cup {"exists"}]
                 ELSE IF storage = "download_error"
                 THEN /\ Respond(p, "error", "unexpected_error")
                      /\ ops' = [ops EXCEPT ![p] = @ \cup {"exists", "fetch"}]
                 ELSE /\ pc' = [pc EXCEPT ![p] = "unpack"]
                      /\ ops' = [ops EXCEPT ![p] = @ \cup {"exists", "fetch"}]
                      /\ UNCHANGED <<result, response>>
  /\ UNCHANGED <<front, store, req, csv_files, idx, qidx, csv_files_processed,
                 csv_files_skipped, tables_updated, records_added, checked, parsed,
                 appends_done, full, fully_appended, raised_on, clean_done,
                 after_clean, direct, aside>>

(***************************************************************************)
(* Archive pipeline: process_zip_with_individual_tracking                  *)
(***************************************************************************)
\* extract_dir.rglob("*.csv")
CsvEntries(entries) == SelectSeq(entries, LAMBDA e : EndsWith(e, ".csv"))

NoCsvFound_unchecked(files) == FALSE

\* survey_processor.py 599: `if not csv_files`
NoCsvFound(files) == files = <<>>

Current(p) == csv_files[p][idx[p]]

\* The for loop reaches position j: the next CSV is checked, or the loop is
\* over and the summary is returned (730-736), which the front door answers
\* with 200.
LoopFrom(p, files, j) ==
  IF j <= Len(files)
  THEN /\ idx' = [idx EXCEPT ![p] = j]
       /\ pc' = [pc EXCEPT ![p] = "check"]
       /\ UNCHANGED <<result, response, clean_done>>
  ELSE /\ idx' = [idx EXCEPT ![p] = j]
       /\ Respond(p, "success", "none")
       /\ clean_done' = IF files # <<>> /\ fully_appended[p] = Range(files)
                        THEN clean_done \cup {req[p].name}
                        ELSE clean_done

\* 562-608: open and extract the archive, list its CSV files.
Unpack(p) ==
  /\ pc[p] = "unpack"
  /\ ops' = [ops EXCEPT ![p] = @ \cup {"unpack"}]
  /\ LET zip == Bucket[req[p].name]
         files == CsvEntries(zip.entries)
     IN  IF ~zip.opens
         THEN /\ Respond(p, "error", "bad_zip")
              /\ UNCHANGED <<csv_files, idx, clean_done>>
         ELSE IF NoCsvFound(files)
         THEN /\ Respond(p, "error", "No CSV files found in ZIP")
              /\ UNCHANGED <<csv_files, idx, clean_done>>
         ELSE /\ csv_files' = [csv_files EXCEPT ![p] = files]
              /\ LoopFrom(p, files, 1)
  /\ UNCHANGED <<front, store, req, survey_type, qidx, csv_files_processed,
                 csv_files_skipped, tables_updated, records_added, checked, parsed,
                 appends_done, full, fully_appended, raised_on, after_clean, direct, aside>>

SkipCsv_falls_through(p) ==
  /\ csv_files_skipped' = [csv_files_skipped EXCEPT ![p] = Append(@, Current(p))]
  /\ pc' = [pc EXCEPT ![p] = "parse"]
  /\ UNCHANGED <<idx, result, response, clean_done>>

\* 616-618: the CSV is listed as skipped and the loop continues.
SkipCsv(p) ==
  /\ csv_files_skipped' = [csv_files_skipped EXCEPT ![p] = Append(@, Current(p))]
  /\ LoopFrom(p, csv_files[p], idx[p] + 1)

\* 610-621: the ledger check of the current CSV.
Check(p, up) ==
  /\ pc[p] = "check"
  /\ ops' = [ops EXCEPT ![p] = @ \cup {"ledger_query"}]
  /\ checked' = [checked EXCEPT ![p] = Append(@,
       [name |-> Current(p),
        raised |-> read_table(LedgerTable(survey_type[p]), Conditions(Current(p)), up).raised,
        answer |-> is_processed(Current(p), survey_type[p], up)])]
  /\ full' = [full EXCEPT ![p] = TRUE]
  /\ appends_done' = [appends_done EXCEPT ![p] = 0]
  /\ IF is_processed(Current(p), survey_type[p], up)
     THEN SkipCsv(p)
     ELSE /\ pc' = [pc EXCEPT ![p] = "parse"]
          /\ UNCHANGED <<idx, csv_files_skipped, result, response, clean_done>>
  /\ UNCHANGED <<front, store, req, survey_type, csv_files, qidx, csv_files_processed,
                 tables_updated, records_added, parsed, fully_appended, raised_on,
                 after_clean, direct, aside>>

CsvFailed_aborts(p, step) ==
  /\ raised_on' = [raised_on EXCEPT ![p] = @ \cup {<<Current(p), step>>}]
  /\ Respond(p, "error", step)
  /\ UNCHANGED <<idx, clean_done, ledger>>

CsvFailed_marks(p, step) ==
  /\ raised_on' = [raised_on EXCEPT ![p] = @ \cup {<<Current(p), step>>}]
  /\ ledger' = load_ledger_row(LedgerTable(survey_type[p]), Current(p))
  /\ LoopFrom(p, csv_files[p], idx[p] + 1)

\* 718-720: an exception of the per-CSV block is logged and the loop
\* continues with the next CSV; the ledger is not touched.
CsvFailed(p, step) ==
  /\ raised_on' = [raised_on EXCEPT ![p] = @ \cup {<<Current(p), step>>}]
  /\ LoopFrom(p, csv_files[p], idx[p] + 1)
  /\ UNCHANGED ledger

\* The CSV has been appended and the ledger call is next.
ToMark(p, wasFull) ==
  /\ pc' = [pc EXCEPT ![p] = "mark"]
  /\ fully_appended' = [fully_appended EXCEPT ![p] =
       IF wasFull THEN @ \cup {Current(p)} ELSE @]
  /\ UNCHANGED <<idx, result, response, clean_done, raised_on, ledger>>

\* 622-631 / 651-653: read the CSV and build the response rows.
Parse(p) ==
  /\ pc[p] = "parse"
  /\ parsed' = [parsed EXCEPT ![p] = @ \cup {Current(p)}]
  /\ IF ~Csv[Current(p)].parses
     THEN CsvFailed(p, "parse") /\ UNCHANGED fully_appended
     ELSE IF Csv[Current(p)].rows = 0
     THEN ToMark(p, full[p])
     ELSE /\ pc' = [pc EXCEPT ![p] = "responses"]
          /\ UNCHANGED <<idx, result, response, clean_done, raised_on, ledger,
                         fully_appended>>
  /\ UNCHANGED <<front, tables, req, survey_type, csv_files, qidx, csv_files_processed,
                 csv_files_skipped, tables_updated, records_added, ops, checked,
                 appends_done, full, after_clean, direct, aside>>

\* Rows of a table that came from one source CSV: those appended with every
\* column and those appended with the essential columns only.
TableRows(table_name, source) ==
  IF source \in DOMAIN tables[table_name] THEN tables[table_name][source]
  ELSE [all |-> 0, essential |-> 0]

ResponsesTable(stype) ==
  IF stype = "BRAND_TRACKER" THEN "brand_responses" ELSE "custom_responses"

\* upload_to_bigquery, 480-560: the table after the call.  "ok": the first
\* append went through with every column; "fallback": it failed and the
\* append of the essential columns went through; "raise": both failed.
upload_to_bigquery(table_name, source, n, outcome) ==
  LET had == TableRows(table_name, source)
  IN  IF outcome = "ok"
      THEN [tables EXCEPT ![table_name] = (source :> [had EXCEPT !.all = @ + n]) @@ @]
      ELSE IF outcome = "fallback"
      THEN [tables EXCEPT ![table_name] = (source :> [had EXCEPT !.essential = @ + n]) @@ @]
      ELSE tables

\* 634-637 / 644-647: the bookkeeping after an append that returned.
Count(p, table_name, n) ==
  /\ records_added' = [records_added EXCEPT ![p] =
       (table_name :> (IF table_name \in DOMAIN @ THEN @[table_name] ELSE 0) + n) @@ @]
  /\ tables_updated' = [tables_updated EXCEPT ![p] = @ \cup {table_name}]

\* 633-637 / 655-659: append the response rows of the current CSV.
UploadResponses(p, outcome) ==
  /\ pc[p] = "responses"
  /\ LET f == Current(p)
         t == ResponsesTable(survey_type[p])
     IN  /\ tables' = upload_to_bigquery(t, f, Csv[f].rows, outcome)
         /\ ops' = [ops EXCEPT ![p] = @ \cup {"table_write"}]
         /\ IF outcome = "raise"
            THEN /\ CsvFailed(p, "responses")
                 /\ UNCHANGED <<records_added, tables_updated, qidx, full, fully_appended,
                                appends_done>>
            ELSE /\ Count(p, t, Csv[f].rows)
                 /\ appends_done' = [appends_done EXCEPT ![p] = @ + 1]
                 /\ full' = [full EXCEPT ![p] = @ /\ outcome = "ok"]
                 /\ IF Csv[f].questions = <<>>
                    THEN ToMark(p, full[p] /\ outcome = "ok") /\ UNCHANGED qidx
                    ELSE /\ pc' = [pc EXCEPT ![p] = "questions"]
                         /\ qidx' = [qidx EXCEPT ![p] = 1]
                         /\ UNCHANGED <<idx, result, response, clean_done, raised_on,
                                        ledger, fully_appended>>
  /\ UNCHANGED <<front, req, survey_type, csv_files, csv_files_processed,
                 csv_files_skipped, checked, parsed, after_clean, direct, aside>>

\* 639-647 / 661-669: append one question table of the current CSV.
UploadQuestion(p, outcome) ==
  /\ pc[p] = "questions"
  /\ LET f == Current(p)
         t == Csv[f].questions[qidx[p]]
     IN  /\ tables' = upload_to_bigquery(t, f, Csv[f].qrows, outcome)
         /\ ops' = [ops EXCEPT ![p] = @ \cup {"table_write"}]
         /\ IF outcome = "raise"
            THEN /\ CsvFailed(p, "questions")
                 /\ UNCHANGED <<records_added, tables_updated, qidx, full, fully_appended,
                                appends_done>>
            ELSE /\ Count(p, t, Csv[f].qrows)
                 /\ appends_done' = [appends_done EXCEPT ![p] = @ + 1]
                 /\ full' = [full EXCEPT ![p] = @ /\ outcome = "ok"]
                 /\ IF qidx[p] = Len(Csv[f].questions)
                    THEN ToMark(p, full[p] /\ outcome = "ok") /\ UNCHANGED qidx
                    ELSE /\ qidx' = [qidx EXCEPT ![p] = @ + 1]
                         /\ UNCHANGED <<pc, idx, result, response, clean_done, raised_on,
                                        ledger, fully_appended>>
  /\ UNCHANGED <<front, req, survey_type, csv_files, csv_files_processed,
                 csv_files_skipped, checked, parsed, after_clean, direct, aside>>

\* 671-703: the ledger call and the bookkeeping after it.  The call site
\* passes filename and survey_type only.
Mark(p, up) ==
  /\ pc[p] = "mark"
  /\ IF CallBinds(MarkProcessedParams, PipelineMarkArgs)
     THEN /\ ledger' = mark_processed(Current(p), survey_type[p], "metrics", up)
          /\ ops' = [ops EXCEPT ![p] = @ \cup {"ledger_write"}]
          /\ csv_files_processed' = [csv_files_processed EXCEPT ![p] = Append(@, Current(p))]
          /\ LoopFrom(p, csv_files[p], idx[p] + 1)
          /\ UNCHANGED raised_on
     ELSE /\ CsvFailed(p, "mark")
          /\ UNCHANGED <<ops, csv_files_processed>>
  /\ UNCHANGED <<front, tables, req, survey_type, csv_files, qidx, csv_files_skipped,
                 tables_updated, records_added, checked, parsed, appends_done, full,
                 fully_appended, after_clean, direct, aside>>

(***************************************************************************)
(* The service                                                             *)
(***************************************************************************)
\* Ledger rows that exist before the service starts (the ledger is durable
\* and outlives the process).
PriorLedger ==
  [t \in LedgerTables |->
     IF t = "processed_custom_surveys" THEN (CsvC :> 1) ELSE <<>>]

Init ==
  /\ now = 0
  /\ events = 0
  /\ recent_files = <<>>
  /\ ledger = PriorLedger
  /\ tables = [t \in TableNames |-> <<>>]
  /\ pc = [p \in Procs |-> "idle"]
  /\ req = [p \in Procs |-> NoRequest]
  /\ survey_type = [p \in Procs |-> "none"]
  /\ csv_files = [p \in Procs |-> <<>>]
  /\ idx = [p \in Procs |-> 0]
  /\ qidx = [p \in Procs |-> 0]
  /\ csv_files_processed = [p \in Procs |-> <<>>]
  /\ csv_files_skipped = [p \in Procs |-> <<>>]
  /\ tables_updated = [p \in Procs |-> {}]
  /\ records_added = [p \in Procs |-> NoRecords]
  /\ result = [p \in Procs |-> NoResult]
  /\ response = [p \in Procs |-> NoResponse]
  /\ ops = [p \in Procs |-> {}]
  /\ checked = [p \in Procs |-> <<>>]
  /\ parsed = [p \in Procs |-> {}]
  /\ appends_done = [p \in Procs |-> 0]
  /\ full = [p \in Procs |-> TRUE]
  /\ fully_appended = [p \in Procs |-> {}]
  /\ raised_on = [p \in Procs |-> {}]
  /\ clean_done = {}
  /\ after_clean = [p \in Procs |-> FALSE]
  /\ last_check = NoCheck
  /\ marked = {}
  /\ webhook_url = NoWebhook
  /\ enabled = FALSE
  /\ sends = 0
  /\ notifications = <<>>
  /\ last_send = NoSend
  /\ uploads = 0
  /\ last_upload = NoUpload
  /\ stage = "none"
  /\ sheet = NoSheet
  /\ responses = <<>>
  /\ question_tables = <<>>
  /\ original_filename = <<>>
  /\ dma = <<>>
  /\ dma_info = NoInfo
  /\ cleaner_op = "none"
  /\ cleaner_in = <<>>
  /\ cleaner_pieces = <<>>
  /\ cleaned_answer = <<>>
  /\ brand_list = <<>>
  /\ hash_seed = 0
  /\ interpreters = 0
  /\ study_ids = {}

Next ==
  \/ \E ev \in Events : \E d \in Delays(ev) : Receive(ev, d)
  \/ \E p \in Procs, storage \in FetchOutcomes : Fetch(p, storage)
  \/ \E p \in Procs : Unpack(p)
  \/ \E p \in Procs, up \in BOOLEAN : Check(p, up)
  \/ \E p \in Procs : Parse(p)
  \/ \E p \in Procs, outcome \in UploadOutcomes : UploadResponses(p, outcome)
  \/ \E p \in Procs, outcome \in UploadOutcomes : UploadQuestion(p, outcome)
  \/ \E p \in Procs, up \in BOOLEAN : Mark(p, up)
  \/ \E p \in Procs : Close(p)

Spec == Init /\ [][Next]_vars

(***************************************************************************)
(* The ledger on its own: direct calls of the SurveyTracker interface      *)
(***************************************************************************)
\* Keys the direct calls use: a plain filename and one with a quote in it.
DirectKeys == {CsvA, CsvQ}

\* tracker.mark_processed(k, t, metrics) called with all three arguments.
DirectMark(k, t, up) ==
  /\ LedgerRows(LedgerTable(t), k) < MaxMarks
  /\ ledger' = mark_processed(k, t, "metrics", up)
  /\ marked' = marked \cup {[filename |-> k, stype |-> t, wrote |-> up,
                               raised |-> mark_processed_raises(k, t, "metrics", up)]}
  /\ last_check' = NoCheck
  /\ UNCHANGED <<front, tables, locals, history, aside>>

\* tracker.is_processed(k, t)
DirectCheck(k, t, up) ==
  /\ last_check' = [filename |-> k, stype |-> t, up |-> up,
                    answer |-> is_processed(k, t, up)]
  /\ UNCHANGED <<front, store, locals, history, marked, aside>>

NextLedger ==
  \/ \E k \in DirectKeys, t \in SurveyTypes, up \in BOOLEAN : DirectMark(k, t, up)
  \/ \E k \in DirectKeys, t \in SurveyTypes, up \in BOOLEAN : DirectCheck(k, t, up)

SpecLedger == Init /\ [][NextLedger]_vars

(***************************************************************************)
(* Notification channel: SlackNotifier (no module of the service calls it) *)
(***************************************************************************)
MaxSends == 3

NotifyKinds == {"success", "failure", "skipped"}

\* Arguments of a send_* call: of the documented types, or of a type the
\* message building chokes on (a records_added that is no dict, a
\* processing_time that is no number).
NotifyArgs == {"well_formed", "malformed"}

\* What the webhook does with a post: accepts it, answers another status,
\* or the post raises (timeout, connection error, no URL).
Transports == {"200", "non200", "raises"}

WebhookUrls == {NoWebhook, "https://hooks.slack.test/T0"}

\* SlackNotifier.__init__: the notifier is enabled when it has a URL.
NewNotifier(url) ==
  /\ sends = 0
  /\ webhook_url' = url
  /\ enabled' = (url # NoWebhook)
  /\ UNCHANGED <<front, store, locals, history, direct, cleaning, study, upload, aggregate, sends,
                 notifications, last_send>>

\* SlackNotifier._send_message, 259-285: post, True on status 200, False on
\* any other status and on an exception of the post.
send_message(transport) ==
  [raised |-> FALSE, value |-> (transport = "200"), posted |-> TRUE]

send_notification_unguarded(kind, args, transport) ==
  IF ~enabled THEN [raised |-> FALSE, value |-> FALSE, posted |-> FALSE]
  ELSE IF args = "malformed" THEN [raised |-> TRUE, value |-> FALSE, posted |-> FALSE]
  ELSE send_message(transport)

\* send_success_notification / send_failure_notification /
\* send_skipped_notification: False at once when disabled; otherwise build
\* the message and post it, any exception on the way caught and turned into
\* False.
send_notification(kind, args, transport) ==
  IF ~enabled THEN [raised |-> FALSE, value |-> FALSE, posted |-> FALSE]
  ELSE IF args = "malformed" THEN [raised |-> FALSE, value |-> FALSE, posted |-> FALSE]
  ELSE send_message(transport)

\* One call of a send_* method.
Send(kind, args, transport) ==
  /\ sends < MaxSends
  /\ sends' = sends + 1
  /\ LET r == send_notification(kind, args, transport)
     IN  /\ last_send' = [kind |-> kind, enabled |-> enabled, args |-> args,
                          transport |-> transport, raised |-> r.raised,
                          value |-> r.value, posted |-> r.posted]
         /\ notifications' = IF r.posted /\ transport = "200"
                             THEN Append(notifications, kind)
                             ELSE notifications
  /\ UNCHANGED <<front, store, locals, history, direct, cleaning, study, upload, aggregate, webhook_url,
                 enabled>>

NextNotify ==
  \/ \E url \in WebhookUrls : NewNotifier(url)
  \/ \E kind \in NotifyKinds, args \in NotifyArgs, transport \in Transports :
       Send(kind, args, transport)

SpecNotify == Init /\ [][NextNotify]_vars

(***************************************************************************)
(* upload_to_bigquery call by call                                         *)
(***************************************************************************)
MaxDfRows == 2
MaxUploads == 2

\* survey_processor.py 536-539
EssentialColumns == {"age", "gender", "geo", "client_type", "session_weight",
                     "study_number", "survey_date", "processed_date", "Group_type",
                     "Group"}

\* Columns of a response frame, of an aggregated question frame, and of a
\* frame that shares no column with the essential ones.
ResponseColumns == EssentialColumns \cup {"recorded_timestamp", "q1_answer", "q2_answer",
                                          "q3_answer"}

QuestionColumns == EssentialColumns \cup {"survey_dates", "q1_answer", "count_response",
                                          "Weighted_Response"}

BareColumns == {"q1_answer", "count_response"}

\* The first attempt: it goes through, the preparation of the copy raises
\* before load_table is called, or load_table raises.
FirstAttempts == {"ok", "prep_raises", "load_raises"}

SecondAttempts == {"ok", "load_raises"}

upload_call_full_fallback(rows, columns, first, second) ==
  IF rows = 0 THEN [calls |-> <<>>, raised |-> FALSE, error |-> "none", value |-> 0]
  ELSE IF first = "ok"
  THEN [calls |-> <<[columns |-> columns, fallback |-> FALSE, ok |-> TRUE]>>,
        raised |-> FALSE, error |-> "none", value |-> rows]
  ELSE LET made == IF first = "load_raises"
                   THEN <<[columns |-> columns, fallback |-> FALSE, ok |-> FALSE]>>
                   ELSE <<>>
       IN  [calls |-> Append(made, [columns |-> columns, fallback |-> TRUE,
                                    ok |-> second = "ok"]),
            raised |-> second # "ok",
            error |-> IF second = "ok" THEN "none" ELSE "original",
            value |-> IF second = "ok" THEN rows ELSE 0]

\* upload_to_bigquery, 480-560, as the load_table calls it makes and the way
\* it ends: 0 for an empty frame without any call; the row count after the
\* first append; on a failure one append of the essential columns the frame
\* has, the row count if that goes through; otherwise the bare `raise` at
\* the end of the handler re-raises the first exception.
upload_call(rows, columns, first, second) ==
  IF rows = 0 THEN [calls |-> <<>>, raised |-> FALSE, error |-> "none", value |-> 0]
  ELSE IF first = "ok"
  THEN [calls |-> <<[columns |-> columns, fallback |-> FALSE, ok |-> TRUE]>>,
        raised |-> FALSE, error |-> "none", value |-> rows]
  ELSE LET made == IF first = "load_raises"
                   THEN <<[columns |-> columns, fallback |-> FALSE, ok |-> FALSE]>>
                   ELSE <<>>
           available_columns == EssentialColumns \cap columns
       IN  IF available_columns = {}
           THEN [calls |-> made, raised |-> TRUE, error |-> "original", value |-> 0]
           ELSE [calls |-> Append(made, [columns |-> available_columns, fallback |-> TRUE,
                                         ok |-> second = "ok"]),
                 raised |-> second # "ok",
                 error |-> IF second = "ok" THEN "none" ELSE "original",
                 value |-> IF second = "ok" THEN rows ELSE 0]

\* The call seen from the tables: which of the three outcomes it is.
OutcomeOf(r) ==
  IF r.raised THEN "raise"
  ELSE IF \E i \in 1..Len(r.calls) : r.calls[i].fallback /\ r.calls[i].ok THEN "fallback"
  ELSE "ok"

\* One call of upload_to_bigquery for a frame made from CsvA.
Upload(table_name, rows, columns, first, second) ==
  /\ uploads < MaxUploads
  /\ uploads' = uploads + 1
  /\ LET r == upload_call(rows, columns, first, second)
     IN  /\ last_upload' = [table |-> table_name, rows |-> rows, columns |-> columns,
                            first |-> first, second |-> second, calls |-> r.calls,
                            raised |-> r.raised, error |-> r.error, value |-> r.value]
         /\ tables' = IF rows = 0 THEN tables
                      ELSE upload_to_bigquery(table_name, CsvA, rows, OutcomeOf(r))
  /\ UNCHANGED <<front, ledger, locals, history, direct, cleaning, study, notify, aggregate>>

NextUpload ==
  \E table_name \in {"brand_responses", "awareness"}, rows \in 0..MaxDfRows,
     columns \in {ResponseColumns, QuestionColumns, BareColumns},
     first \in FirstAttempts, second \in SecondAttempts :
       Upload(table_name, rows, columns, first, second)

SpecUpload == Init /\ [][NextUpload]_vars

(***************************************************************************)
(* Text: a cell of a CSV is a sequence of characters, or NaN (empty cell)  *)
(***************************************************************************)
NaN == <<"NaN">>

isna(x) == x = NaN

LowerCase == <<"a", "b", "c", "d", "e", "f", "g", "h", "i", "j", "k", "l", "m", "n", "o", "p", "q", "r", "s", "t", "u", "v", "w", "x", "y", "z">>

UpperCase == <<"A", "B", "C", "D", "E", "F", "G", "H", "I", "J", "K", "L", "M", "N", "O", "P", "Q", "R", "S", "T", "U", "V", "W", "X", "Y", "Z">>

\* str.lower() of one character
LowerChar(c) ==
  IF \E i \in 1..Len(UpperCase) : UpperCase[i] = c
  THEN LowerCase[CHOOSE i \in 1..Len(UpperCase) : UpperCase[i] = c]
  ELSE c

UpperChar(c) ==
  IF \E i \in 1..Len(LowerCase) : LowerCase[i] = c
  THEN UpperCase[CHOOSE i \in 1..Len(LowerCase) : LowerCase[i] = c]
  ELSE c

Lower(t) == [i \in 1..Len(t) |-> LowerChar(t[i])]

\* str.strip(): leading and trailing blanks removed
RECURSIVE Strip(_)
Strip(t) ==
  IF t = <<>> THEN <<>>
  ELSE IF Head(t) = " " THEN Strip(Tail(t))
  ELSE IF Last(t) = " " THEN Strip(SubSeq(t, 1, Len(t) - 1))
  ELSE t

\* `k in t` for strings
IsSubstring(k, t) ==
  \E i \in 0..(Len(t) - Len(k)) : SubSeq(t, i + 1, i + Len(k)) = k

\* str.split(d): the pieces between the occurrences of the character d
RECURSIVE SplitOn(_, _)
SplitOn(t, d) ==
  IF \E i \in 1..Len(t) : t[i] = d
  THEN LET i == CHOOSE i \in 1..Len(t) : t[i] = d /\ \A j \in 1..(i - 1) : t[j] # d
       IN  <<SubSeq(t, 1, i - 1)>> \o SplitOn(SubSeq(t, i + 1, Len(t)), d)
  ELSE <<t>>

(***************************************************************************)
(* Brand tracker frames: process_brand_tracker_csv and                     *)
(* create_brand_question_tables                                            *)
(***************************************************************************)
\* A session weight in tenths, or NaN.
Weight(n) == [nan |-> FALSE, tenths |-> n]

NaNWeight == [nan |-> TRUE, tenths |-> 0]

\* survey_processor.py 309: the weight of a row of a CSV without a Session
\* Weight column is 1.0
DefaultWeight == Weight(10)

\* A Session Weight cell whose text is no number.
NotANumber(text) == [nan |-> FALSE, tenths |-> 0, text |-> text]

\* float(cell) raises ValueError
Unparseable(cell) == "text" \in DOMAIN cell

\* float(cell) of a cell it accepts: the number, NaN for an empty cell
float(cell) == cell

\* 309 / 404: float(row.get('Session Weight', 1.0)) raises for some row
weight_raises(df) ==
  df.weights /\ \E i \in 1..Len(df.rows) : Unparseable(df.rows[i].SessionWeight)

Weighted_once(w, n) == w

\* session_weight * count_response
Weighted(w, n) == IF w.nan THEN NaNWeight ELSE Weight(w.tenths * n)

\* clean_brand_name, 266-281: the mapping in the order of the dict
brand_mapping == <<
    <<<<"a", "l", "l", "s", "t", "a", "t", "e">>, <<"A", "l", "l", "s", "t", "a", "t", "e">>>>,
    <<<<"g", "e", "i", "c", "o">>, <<"G", "e", "i", "c", "o">>>>,
    <<<<"p", "r", "o", "g", "r", "e", "s", "s", "i", "v", "e">>, <<"P", "r", "o", "g", "r", "e", "s", "s", "i", "v", "e">>>>,
    <<<<"s", "t", "a", "t", "e", " ", "f", "a", "r", "m">>, <<"S", "t", "a", "t", "e", " ", "F", "a", "r", "m">>>>,
    <<<<"l", "i", "b", "e", "r", "t", "y", " ", "m", "u", "t", "u", "a", "l">>, <<"L", "i", "b", "e", "r", "t", "y", " ", "M", "u", "t", "u", "a", "l">>>>,
    <<<<"f", "a", "r", "m", "e", "r", "s">>, <<"F", "a", "r", "m", "e", "r", "s">>>>,
    <<<<"u", "s", "a", "a">>, <<"U", "S", "A", "A">>>>,
    <<<<"n", "a", "t", "i", "o", "n", "w", "i", "d", "e">>, <<"N", "a", "t", "i", "o", "n", "w", "i", "d", "e">>>>,
    <<<<"a", "m", "e", "r", "i", "c", "a", "n", " ", "f", "a", "m", "i", "l", "y">>, <<"A", "m", "e", "r", "i", "c", "a", "n", " ", "F", "a", "m", "i", "l", "y">>>>,
    <<<<"t", "h", "e", " ", "g", "e", "n", "e", "r", "a", "l">>, <<"T", "h", "e", " ", "G", "e", "n", "e", "r", "a", "l">>>>,
    <<<<"e", "s", "u", "r", "a", "n", "c", "e">>, <<"E", "s", "u", "r", "a", "n", "c", "e">>>>,
    <<<<"t", "r", "a", "v", "e", "l", "e", "r", "s">>, <<"T", "r", "a", "v", "e", "l", "e", "r", "s">>>>,
    <<<<"s", "a", "f", "e", "c", "o">>, <<"S", "a", "f", "e", "c", "o">>>>,
    <<<<"h", "a", "r", "t", "f", "o", "r", "d">>, <<"H", "a", "r", "t", "f", "o", "r", "d">>>>>>

\* clean_brand_name, 258-288: the value of the first key contained in the
\* lower-cased brand, else the stripped brand itself.
clean_brand_name(brand) ==
  IF isna(brand) \/ brand = <<>> \/ brand = <<"n", "a", "n">> THEN brand
  ELSE LET stripped == Strip(brand)
           brand_lower == Lower(stripped)
           hits == {i \in 1..Len(brand_mapping) : IsSubstring(brand_mapping[i][1], brand_lower)}
       IN  IF hits = {} THEN stripped
           ELSE brand_mapping[CHOOSE i \in hits : \A j \in hits : i <= j][2]

\* process_brand_tracker_csv, 290-321: one response row per CSV row.  The
\* dates and the study number, which are the same for every row of a CSV
\* and are strings, never NaN, are left out of the rows.
process_brand_tracker_csv(df, geo, geo_info) ==
  [i \in 1..Len(df.rows) |->
     [age |-> df.rows[i].Age,
      gender |-> df.rows[i].Gender,
      geo |-> geo,
      Group_type |-> geo_info.Group_type,
      Group |-> geo_info.Group,
      client_type |-> df.rows[i].ClientType,
      session_weight |-> float(IF df.weights THEN df.rows[i].SessionWeight ELSE DefaultWeight),
      q1_answer |-> df.rows[i].Q1,
      q2_answer |-> df.rows[i].Q2,
      q3_answer |-> df.rows[i].Q3]]

RECURSIVE Flatten(_)
Flatten(ss) == IF ss = <<>> THEN <<>> ELSE Head(ss) \o Flatten(Tail(ss))

\* split_and_explode, 237-256, for one column: NaN becomes '', the value is
\* split on the delimiter, one row per piece, pieces stripped, rows whose
\* piece is '' or 'nan' dropped.
split_and_explode(df, col, delimiter) ==
  LET pieces(r) == SplitOn(IF isna(r[col]) THEN <<>> ELSE r[col], delimiter)
      exploded(r) == [k \in 1..Len(pieces(r)) |-> [r EXCEPT ![col] = Strip(pieces(r)[k])]]
      all == Flatten([i \in 1..Len(df) |-> exploded(df[i])])
  IN  SelectSeq(all, LAMBDA r : r[col] # <<>> /\ r[col] # <<"n", "a", "n">>)

\* groupby(group_columns).size() with Weighted_Response added, 364-376:
\* one row per combination of the group columns that occurs, rows with NaN
\* in a group column left out (pandas drops NaN group keys).
GroupCount(df, col) ==
  LET usable == SelectSeq(df, LAMBDA r :
                  /\ ~isna(r.age) /\ ~isna(r.gender) /\ ~isna(r.client_type)
                  /\ ~r.session_weight.nan /\ ~isna(r[col]))
      key(r) == [age |-> r.age, gender |-> r.gender, geo |-> r.geo,
                 client_type |-> r.client_type, session_weight |-> r.session_weight,
                 answer |-> r[col], Group_type |-> r.Group_type, Group |-> r.Group]
      size(k) == Cardinality({i \in 1..Len(usable) : key(usable[i]) = k})
  IN  {[age |-> k.age, gender |-> k.gender, geo |-> k.geo, client_type |-> k.client_type,
        session_weight |-> k.session_weight, answer |-> k.answer,
        Group_type |-> k.Group_type, Group |-> k.Group,
        count_response |-> size(k),
        Weighted_Response |-> Weighted(k.session_weight, size(k))] :
         k \in {key(usable[i]) : i \in 1..Len(usable)}}

\* question_mapping, 332, with the questions that are exploded (352)
question_mapping == <<[col |-> "q1_answer", table |-> "awareness", explode |-> TRUE],
                      [col |-> "q2_answer", table |-> "consideration", explode |-> TRUE],
                      [col |-> "q3_answer", table |-> "intent", explode |-> FALSE]>>

\* 341-345: rows with a valid answer to the question
ValidAnswers(df, col) ==
  SelectSeq(df, LAMBDA r : ~isna(r[col]) /\ r[col] # <<>> /\ r[col] # <<"n", "a", "n">>)

\* The frame of one question, 341-376.
brand_question_table(brand_df, q) ==
  LET question_data == ValidAnswers(brand_df, q.col)
      exploded == IF q.explode THEN split_and_explode(question_data, q.col, ";")
                  ELSE question_data
      cleaned == [i \in 1..Len(exploded) |->
                    [exploded[i] EXCEPT ![q.col] = clean_brand_name(@)]]
  IN  GroupCount(cleaned, q.col)

\* create_brand_question_tables, 323-380: a frame for every question that
\* has a valid answer in some row.
create_brand_question_tables(brand_df) ==
  LET present == {i \in 1..Len(question_mapping) :
                    ValidAnswers(brand_df, question_mapping[i].col) # <<>>}
  IN  [t \in {question_mapping[i].table : i \in present} |->
         brand_question_table(brand_df,
           question_mapping[CHOOSE i \in present : question_mapping[i].table = t])]

(***************************************************************************)
(* Open-ended answers: CustomSurveyDataCleaner                             *)
(***************************************************************************)
NoneUnknown == <<"N", "o", "n", "e", "/", "U", "n", "k", "n", "o", "w", "n">>

NonInsurance == <<"N", "o", "n", "-", "I", "n", "s", "u", "r", "a", "n", "c", "e", " ", "R", "e", "s", "p", "o", "n", "s", "e">>

Unmapped == <<"U", "N", "M", "A", "P", "P", "E", "D", "_", "R", "E", "S", "P", "O", "N", "S", "E">>

Digits == <<"0", "1", "2", "3", "4", "5", "6", "7", "8", "9">>

IsLetter(c) == c \in Range(LowerCase) \cup Range(UpperCase)

\* \w of the regular expression
IsWord(c) == IsLetter(c) \/ c \in Range(Digits) \/ c = "_"

\* re.sub(r'[^\w\s]', ' ', response)
Depunctuate(t) == [i \in 1..Len(t) |-> IF IsWord(t[i]) \/ t[i] = " " THEN t[i] ELSE " "]

\* ' '.join(response.split()): runs of blanks become one blank, none at the
\* ends
RECURSIVE Collapse(_)
Collapse(t) ==
  IF t = <<>> THEN <<>>
  ELSE IF Head(t) = " "
  THEN LET rest == Collapse(Tail(t))
       IN  IF rest = <<>> \/ Len(t) = 1 THEN rest ELSE rest
  ELSE LET i == IF \E k \in 1..Len(t) : t[k] = " "
                THEN CHOOSE k \in 1..Len(t) : t[k] = " " /\ \A j \in 1..(k - 1) : t[j] # " "
                ELSE Len(t) + 1
           rest == Collapse(SubSeq(t, i, Len(t)))
       IN  IF rest = <<>> THEN SubSeq(t, 1, i - 1)
           ELSE SubSeq(t, 1, i - 1) \o <<" ">> \o rest

\* str.title()
Title(t) ==
  [i \in 1..Len(t) |->
     IF i = 1 \/ ~IsLetter(t[IF i = 1 THEN 1 ELSE i - 1]) THEN UpperChar(t[i])
     ELSE LowerChar(t[i])]

\* 206-211: strip, lower-case, punctuation to blanks, blanks collapsed
Normalize(answer) == Collapse(Depunctuate(Lower(Strip(answer))))

\* custom_data_cleaner.py 11-173, in the order of the dict
brand_patterns == <<
  [brand |-> <<"S", "t", "a", "t", "e", " ", "F", "a", "r", "m">>,
   patterns |-> <<
     <<"s", "t", "a", "t", "e", " ", "f", "a", "r", "m">>,
     <<"s", "t", "a", "t", "e", "f", "a", "r", "m">>,
     <<"s", "t", "a", "t", "e", " ", "f", "a", "r", "m", "s">>,
     <<"s", "t", "a", "t", "e", "f", "a", "r", "m", "s">>,
     <<"s", "t", "a", "t", "e", " ", "f", "a", "r", "n">>,
     <<"s", "t", "a", "t", "e", " ", "f", "r", "a", "m">>,
     <<"s", "t", "a", "t", "e", " ", "f", "a", "t", "m">>,
     <<"s", "t", "a", "t", "e", " ", "f", "a", "r", "m", "e">>,
     <<"s", "t", "a", "t", "e", " ", "f", "a", "r", "m", "m">>,
     <<"s", "t", "a", "t", "e", " ", "d", "a", "r", "m">>,
     <<"s", "t", "a", "y", "e", " ", "f", "a", "r", "m">>,
     <<"s", "t", "t", "e", " ", "f", "a", "r", "m">>,
     <<"s", "t", "a", "t", " ", "f", "a", "r", "m">>,
     <<"s", "t", "a", "t", "e", " ", "f", "o", "r", "m">>,
     <<"s", "t", "a", "t", "e", " ", "f", "a", "r">>,
     <<"s", "t", " ", "f", "a", "r", "m">>, <<"s", "t", " ", "f", "a", "r", "m", "s">>,
     <<"s", "t", "a", "t", "e", "f", "a", "r", "m", " ", "i", "n", "s", "u", "r", "a", "n", "c", "e">>,
     <<"s", "t", "a", "t", "e", " ", "f", "a", "r", "m", " ">>,
     <<"s", "t", "a", "t", "e", " ", "f", "a", "r", "m">>,
     <<"S", "t", "a", "t", "e", " ", "f", "a", "r", "m">>,
     <<"S", "t", "a", "t", "e", " ", "F", "a", "r", "m">>,
     <<"S", "t", "a", "t", "e", " ", "F", "a", "r", "m", " ">>,
     <<"S", "t", "a", "t", "e", " ", "f", "a", "r", "m", " ">>,
     <<"s", "t", "a", "t", "e", " ", "f", "a", "r", "m">>>>],
  [brand |-> <<"G", "e", "i", "c", "o">>,
   patterns |-> <<
     <<"g", "e", "i", "c", "o">>, <<"g", "i", "e", "c", "o">>, <<"g", "i", "c", "o">>,
     <<"g", "y", "c", "o">>, <<"g", "e", "c", "k", "o">>, <<"g", "e", "c", "o">>,
     <<"g", "e", "c", "i", "o">>, <<"g", "i", "e", "g", "o">>, <<"g", "i", "e", "k", "o">>,
     <<"g", "e", "i", "g", "o">>, <<"g", "e", "i", "c", "h", "o">>,
     <<"g", "e", "i", "c", "k", "o">>, <<"g", "e", "i", "c", "o", "o">>,
     <<"g", "i", "c", "e", "o">>, <<"g", "i", "c", "k", "o">>, <<"g", "i", "g", "o">>,
     <<"g", "a", "i", "c", "o">>, <<"g", "i", "e", "c", "c", "o">>,
     <<"g", "e", "i", "c", "o", " ", "i", "n", "s", "u", "r", "a", "n", "c", "e">>,
     <<"G", "e", "i", "c", "o">>, <<"G", "e", "i", "c", "o", " ">>,
     <<"G", "E", "I", "C", "O">>, <<"G", "E", "I", "C", "O", " ">>,
     <<"g", "e", "i", "c", "o">>, <<"g", "e", "i", "c", "o", " ">>,
     <<"G", "i", "e", "c", "o">>, <<"G", "i", "e", "c", "o", " ">>, <<"G", "i", "c", "o">>,
     <<"G", "i", "c", "o", " ">>, <<"g", "i", "e", "c", "o">>,
     <<"g", "i", "e", "c", "o", " ">>, <<"g", "e", "i", "c", "o">>,
     <<"g", "e", "i", "c", "o", " ">>, <<"g", "i", "c", "o">>, <<"g", "i", "c", "o", " ">>,
     <<" ", "G", "e", "i", "c", "o">>, <<"G", "e", "i", "c", "o", ".">>,
     <<"G", "e", "i", "c", "o", "?">>, <<"G", "e", "i", "c", "o", "o">>,
     <<"G", "I", "E", "C", "O">>, <<"G", "I", "E", "C", "O", " ">>,
     <<"G", "e", "i", "c", "o", "'", "s">>>>],
  [brand |-> <<"P", "r", "o", "g", "r", "e", "s", "s", "i", "v", "e">>,
   patterns |-> <<
     <<"p", "r", "o", "g", "r", "e", "s", "s", "i", "v", "e">>,
     <<"p", "r", "o", "g", "e", "s", "s", "i", "v", "e">>,
     <<"p", "r", "o", "g", "g", "r", "e", "s", "i", "v", "e">>,
     <<"p", "r", "o", "g", "r", "e", "s", "i", "v", "e">>,
     <<"p", "r", "o", "g", "g", "r", "e", "s", "s", "i", "v", "e">>,
     <<"p", "e", "r", "g", "r", "e", "s", "s", "i", "v", "e">>,
     <<"p", "r", "o", "g", "r", "s", "s", "i", "v", "e">>,
     <<"p", "r", "o", "g", "r", "e", "e", "s", "s", "i", "v", "e">>,
     <<"p", "r", "g", "r", "e", "s", "s", "i", "v">>,
     <<"p", "r", "o", "g", "r", "e", "s", "s", "i", "v">>,
     <<"p", "r", "o", "g", "r", "e", "s", "s">>,
     <<"p", "r", "l", "o", "g", "r", "e", "s", "s", "i", "v", "e">>,
     <<"p", "e", "r", "g", "r", "e", "s", "i", "v", "e">>,
     <<"p", "r", "g", "r", "e", "s", "s", "i", "v", "e">>,
     <<"P", "r", "o", "g", "r", "e", "s", "s", "i", "v", "e", " ">>,
     <<"p", "r", "o", "g", "r", "e", "s", "s", "i", "v", "e">>,
     <<"p", "r", "o", "g", "r", "e", "s", "s", "i", "v", "e", " ">>,
     <<"P", "r", "o", "g", "r", "e", "s", "s">>,
     <<"P", "r", "o", "g", "r", "e", "s", "s", " ">>>>],
  [brand |-> <<"A", "l", "l", "s", "t", "a", "t", "e">>,
   patterns |-> <<
     <<"a", "l", "l", "s", "t", "a", "t", "e">>,
     <<"a", "l", "l", " ", "s", "t", "a", "t", "e">>,
     <<"a", "l", "l", " ", "s", "t", "a", "t", "e", "s">>,
     <<"a", "l", "s", "t", "a", "t", "e">>, <<"a", "l", "s", "a", "t", "e">>,
     <<"a", "l", "l", "s", "t", "a", "r", "e">>,
     <<"a", "l", "l", "s", "t", "a", "y", "e">>, <<"a", "l", "s", "r", "a", "t", "e">>,
     <<"a", "l", "s", "s", "t", "a", "t", "e">>,
     <<"a", "l", "l", "s", "t", "a", "r", "t", "e">>,
     <<"a", "l", "l", "s", "t", "a", "t", "e", "d">>,
     <<"a", "l", "l", "l", "s", "t", "a", "t", "e">>,
     <<"a", "l", "l", " ", "s", "t", "a", "t">>,
     <<"a", "l", "l", "s", "t", "a", "r", "s">>, <<"a", "l", "l", "s", "t", "a", "r">>,
     <<"A", "l", "l", "s", "t", "a", "t", "e">>,
     <<"A", "l", "l", "s", "t", "a", "t", "e", " ">>,
     <<"A", "l", "l", " ", "s", "t", "a", "t", "e">>,
     <<"A", "l", "l", " ", "s", "t", "a", "t", "e", " ">>,
     <<"A", "l", "l", " ", "S", "t", "a", "t", "e">>,
     <<"A", "l", "l", " ", "S", "t", "a", "t", "e", " ">>,
     <<"A", "l", "s", "t", "a", "t", "e">>, <<"A", "l", "s", "t", "a", "t", "e", " ">>,
     <<"a", "l", "l", "s", "t", "a", "t", "e">>,
     <<"a", "l", "l", "s", "t", "a", "t", "e", " ">>,
     <<"A", "l", "l", "s", "t", "a", "t", "e">>,
     <<"A", "l", "l", "s", "t", "a", "t", "e", " ">>>>],
  [brand |-> <<"L", "i", "b", "e", "r", "t", "y", " ", "M", "u", "t", "u", "a", "l">>,
   patterns |-> <<
     <<"l", "i", "b", "e", "r", "t", "y">>,
     <<"l", "i", "b", "e", "r", "t", "y", " ", "m", "u", "t", "u", "a", "l">>,
     <<"l", "i", "b", "r", "e", "t", "y">>,
     <<"l", "i", "b", "e", "r", "t", "y", " ", "m", "i", "t", "c", "h", "e", "l", "l">>,
     <<"l", "i", "b", "e", "r", "d", "y">>, <<"l", "i", "r", "b", "e", "t", "y">>,
     <<"l", "i", "b", "e", "r", "t", "y", " ", "n", "e", "u", "t", "r", "a", "l">>,
     <<"l", "i", "b", "e", "r", "i", "t", "y">>, <<"l", "i", "b", "e", "r", "y">>,
     <<"b", "i", "b", "r", "e", "t", "y">>, <<"L", "i", "b", "e", "r", "t", "y">>,
     <<"L", "i", "b", "e", "r", "t", "y", " ">>,
     <<"L", "i", "b", "e", "r", "t", "y", " ", "m", "u", "t", "u", "a", "l">>,
     <<"L", "i", "b", "e", "r", "t", "y", " ", "m", "u", "t", "u", "a", "l", " ">>,
     <<"L", "i", "b", "e", "r", "t", "y", " ", "M", "u", "t", "u", "a", "l">>,
     <<"L", "i", "b", "e", "r", "t", "y", " ", "M", "u", "t", "u", "a", "l", " ">>>>],
  [brand |-> <<"F", "a", "r", "m", "e", "r", "s">>,
   patterns |-> <<
     <<"f", "a", "r", "m", "e", "r", "s">>,
     <<"f", "a", "r", "m", " ", "b", "u", "r", "e", "a", "u">>,
     <<"f", "a", "r", "m", "e", "r">>,
     <<"f", "a", "r", "m", " ", "b", "u", "r", "a", "u">>,
     <<"f", "a", "r", "m", " ", "b", "e", "a", "r", "u">>,
     <<"f", "a", "r", "m", " ", "b", "e", "a", "u", "r", "a">>,
     <<"f", "a", "r", "m", " ", "b", "e", "u", "r", "o">>,
     <<"f", "a", "r", "m", " ", "b", "u", "r", "o">>,
     <<"f", "a", "r", "m", " ", "b", "e", "u", "r", "a">>,
     <<"f", "a", "r", "m", " ", "b", "e", "a", "r", "o">>,
     <<"f", "a", "r", "m", " ", "b", "e", "a", "r", "u", "e">>,
     <<"f", "a", "r", "m", " ", "b", "e", "a", "u", "r", "e">>,
     <<"F", "a", "r", "m", "e", "r", "s">>, <<"F", "a", "r", "m", "e", "r", "s", " ">>,
     <<"F", "a", "r", "m", " ", "b", "u", "r", "e", "a", "u">>,
     <<"F", "a", "r", "m", " ", "b", "u", "r", "e", "a", "u", " ">>>>],
  [brand |-> <<"U", "S", "A", "A">>,
   patterns |-> <<
     <<"u", "s", "a", "a">>, <<"u", "s", "s", "a">>, <<"U", "s", "a", "a">>,
     <<"U", "S", "A", "A">>, <<"U", "S", "A", "A", " ">>>>],
  [brand |-> <<"L", "e", "m", "o", "n", "a", "d", "e">>,
   patterns |-> <<
     <<"l", "e", "m", "o", "n", "a", "d", "e">>, <<"l", "e", "m", "o", "n", "a">>,
     <<"l", "e", "m", "o", "n", "d", "e">>, <<"l", "e", "m", "o", "n", "a", "i", "d">>,
     <<"L", "e", "m", "o", "n", "a", "d", "e">>,
     <<"L", "e", "m", "o", "n", "a", "d", "e", " ">>,
     <<"l", "e", "m", "o", "n", "a", "d", "e">>,
     <<"l", "e", "m", "o", "n", "a", "d", "e", " ">>,
     <<"L", "E", "M", "O", "N", "A", "D", "E">>,
     <<"L", "E", "M", "O", "N", "A", "D", "E", " ">>,
     <<"L", "e", "m", "o", "n", "a", "d">>, <<"L", "e", "m", "o", "n", "a", "d", "3">>,
     <<"L", "e", "m", "o", "n", "a", "d", "r">>,
     <<"L", "e", "m", "o", "n", "a", "d", "e", "s">>,
     <<"L", "e", "m", "o", "n", "a", "d", "a">>,
     <<"L", "e", "m", "o", "n", "a", "d", "e", " ", "p", "e", "t", " ", "i", "n", "s", "u", "r", "a", "n", "c", "e">>,
     <<"L", "e", "m", "o", "n", "a", "d", "e", " ", "p", "e", "t", " ", "i", "n", "s", "u", "r", "a", "n", "c", "e", " ">>,
     <<"L", "e", "m", "o", "n", "a", "d", "e", " ", "p", "e", "t">>,
     <<"L", "e", "m", "o", "n", "a", "d", "e", " ", "P", "e", "t", " ", "I", "n", "s", "u", "r", "a", "n", "c", "e">>,
     <<"L", "e", "m", "o", "n", "a", "d", "e", " ", "P", "e", "t", " ", "I", "n", "s", "u", "r", "a", "n", "c", "e", " ">>,
     <<"P", "e", "t", " ", "l", "e", "m", "o", "n", "a", "d", "e">>,
     <<"L", "e", "m", "o", "n", "a", "d", "e", " ", "i", "n", "s", "u", "r", "a", "n", "c", "e">>,
     <<"L", "e", "m", "o", "n", "a", "d", "e", " ", "i", "n", "s", "u", "r", "a", "n", "c", "e", " ">>,
     <<"L", "e", "m", "o", "n", "a", "d", "e", "?">>>>],
  [brand |-> <<"T", "h", "e", " ", "G", "e", "n", "e", "r", "a", "l">>,
   patterns |-> <<
     <<"g", "e", "n", "e", "r", "a", "l">>,
     <<"t", "h", "e", " ", "g", "e", "n", "e", "r", "a", "l">>,
     <<"G", "e", "n", "e", "r", "a", "l">>, <<"G", "e", "n", "e", "r", "a", "l", " ">>,
     <<"T", "h", "e", " ", "g", "e", "n", "e", "r", "a", "l">>,
     <<"T", "h", "e", " ", "g", "e", "n", "e", "r", "a", "l", " ">>,
     <<"T", "h", "e", " ", "G", "e", "n", "e", "r", "a", "l">>,
     <<"T", "h", "e", " ", "G", "e", "n", "e", "r", "a", "l", " ">>>>],
  [brand |-> <<"N", "a", "t", "i", "o", "n", "w", "i", "d", "e">>,
   patterns |-> <<
     <<"n", "a", "t", "i", "o", "n", "w", "i", "d", "e">>,
     <<"n", "a", "t", "i", "o", "n", " ", "w", "i", "d", "e">>,
     <<"N", "a", "t", "i", "o", "n", "w", "i", "d", "e">>,
     <<"N", "a", "t", "i", "o", "n", "w", "i", "d", "e", " ">>>>],
  [brand |-> <<"T", "r", "a", "v", "e", "l", "e", "r", "s">>,
   patterns |-> <<
     <<"t", "r", "a", "v", "e", "l", "e", "r", "s">>,
     <<"t", "r", "a", "v", "e", "l", "l", "e", "r", "s">>>>],
  [brand |-> <<"A", "m", "e", "r", "i", "c", "a", "n", " ", "F", "a", "m", "i", "l", "y">>,
   patterns |-> <<
     <<"a", "m", "e", "r", "i", "c", "a", "n", " ", "f", "a", "m", "i", "l", "y">>,
     <<"a", "m", " ", "f", "a", "m">>, <<"a", "m", "f", "a", "m">>>>],
  [brand |-> <<"R", "o", "o", "t">>,
   patterns |-> <<
     <<"r", "o", "o", "t">>,
     <<"r", "o", "o", "t", " ", "i", "n", "s", "u", "r", "a", "n", "c", "e">>,
     <<"R", "o", "o", "t">>>>],
  [brand |-> <<"M", "e", "t", "r", "o", "m", "i", "l", "e">>,
   patterns |-> <<
     <<"m", "e", "t", "r", "o", "m", "i", "l", "e">>,
     <<"m", "e", "t", "r", "o", " ", "m", "i", "l", "e">>>>],
  [brand |-> <<"C", "l", "e", "a", "r", "c", "o", "v", "e", "r">>,
   patterns |-> <<
     <<"c", "l", "e", "a", "r", "c", "o", "v", "e", "r">>,
     <<"c", "l", "e", "a", "r", " ", "c", "o", "v", "e", "r">>>>],
  [brand |-> <<"B", "l", "u", "e", " ", "C", "r", "o", "s", "s", " ", "B", "l", "u", "e", " ", "S", "h", "i", "e", "l", "d">>,
   patterns |-> <<
     <<"b", "l", "u", "e", " ", "c", "r", "o", "s", "s">>, <<"b", "c", "b", "s">>,
     <<"b", "l", "u", "e", " ", "c", "r", "o", "s", "s", " ", "b", "l", "u", "e", " ", "s", "h", "i", "e", "l", "d">>>>],
  [brand |-> <<"H", "u", "m", "a", "n", "a">>,
   patterns |-> <<
     <<"h", "u", "m", "a", "n", "a">>>>],
  [brand |-> <<"A", "e", "t", "n", "a">>,
   patterns |-> <<
     <<"a", "e", "t", "n", "a">>, <<"A", "e", "t", "n", "a">>>>],
  [brand |-> <<"C", "i", "g", "n", "a">>,
   patterns |-> <<
     <<"c", "i", "g", "n", "a">>>>],
  [brand |-> <<"U", "n", "i", "t", "e", "d", "H", "e", "a", "l", "t", "h">>,
   patterns |-> <<
     <<"u", "n", "i", "t", "e", "d">>,
     <<"u", "n", "i", "t", "e", "d", " ", "h", "e", "a", "l", "t", "h">>,
     <<"u", "n", "i", "t", "e", "d", "h", "e", "a", "l", "t", "h", "c", "a", "r", "e">>>>],
  [brand |-> <<"E", "s", "u", "r", "a", "n", "c", "e">>,
   patterns |-> <<
     <<"e", "s", "u", "r", "a", "n", "c", "e">>,
     <<"e", "-", "s", "u", "r", "a", "n", "c", "e">>,
     <<"E", "s", "u", "r", "a", "n", "c", "e">>,
     <<"E", "s", "u", "r", "a", "n", "c", "e", " ">>>>],
  [brand |-> <<"S", "a", "f", "e", " ", "A", "u", "t", "o">>,
   patterns |-> <<
     <<"s", "a", "f", "e", " ", "a", "u", "t", "o">>,
     <<"s", "a", "f", "e", "a", "u", "t", "o">>>>],
  [brand |-> <<"D", "i", "r", "e", "c", "t", " ", "A", "u", "t", "o">>,
   patterns |-> <<
     <<"d", "i", "r", "e", "c", "t", " ", "a", "u", "t", "o">>,
     <<"d", "i", "r", "e", "c", "t">>>>],
  [brand |-> <<"E", "n", "d", "u", "r", "a", "n", "c", "e">>,
   patterns |-> <<
     <<"e", "n", "d", "u", "r", "a", "n", "c", "e">>>>],
  [brand |-> <<"A", "f", "l", "a", "c">>,
   patterns |-> <<
     <<"a", "f", "l", "a", "c">>, <<"A", "f", "l", "a", "c">>>>],
  [brand |-> <<"S", "h", "e", "l", "t", "e", "r">>,
   patterns |-> <<
     <<"s", "h", "e", "l", "t", "e", "r">>,
     <<"s", "h", "e", "l", "t", "e", "r", " ", "i", "n", "s", "u", "r", "a", "n", "c", "e">>>>],
  [brand |-> <<"E", "r", "i", "e">>,
   patterns |-> <<
     <<"e", "r", "i", "e">>,
     <<"e", "r", "i", "e", " ", "i", "n", "s", "u", "r", "a", "n", "c", "e">>,
     <<"E", "r", "i", "e">>>>],
  [brand |-> <<"A", "A", "R", "P">>,
   patterns |-> <<
     <<"a", "a", "r", "p">>, <<"A", "a", "r", "p">>>>],
  [brand |-> <<"H", "a", "r", "t", "f", "o", "r", "d">>,
   patterns |-> <<
     <<"h", "a", "r", "t", "f", "o", "r", "d">>,
     <<"t", "h", "e", " ", "h", "a", "r", "t", "f", "o", "r", "d">>>>],
  [brand |-> <<"P", "r", "u", "d", "e", "n", "t", "i", "a", "l">>,
   patterns |-> <<
     <<"p", "r", "u", "d", "e", "n", "t", "i", "a", "l">>>>],
  [brand |-> <<"A", "u", "t", "o", "-", "O", "w", "n", "e", "r", "s">>,
   patterns |-> <<
     <<"a", "u", "t", "o", " ", "o", "w", "n", "e", "r", "s">>,
     <<"a", "u", "t", "o", "-", "o", "w", "n", "e", "r", "s">>,
     <<"a", "u", "t", "o", "o", "w", "n", "e", "r", "s">>>>],
  [brand |-> <<"W", "e", "s", "t", "e", "r", "n", " ", "&", " ", "S", "o", "u", "t", "h", "e", "r", "n">>,
   patterns |-> <<
     <<"w", "e", "s", "t", "e", "r", "n", " ", "a", "n", "d", " ", "s", "o", "u", "t", "h", "e", "r", "n">>,
     <<"w", "e", "s", "t", "e", "r", "n", " ", "s", "o", "u", "t", "h", "e", "r", "n">>,
     <<"w", "e", "s", "t", "e", "r", "n", " ", "&", " ", "s", "o", "u", "t", "h", "e", "r", "n">>>>],
  [brand |-> <<"M", "u", "t", "u", "a", "l", " ", "o", "f", " ", "O", "m", "a", "h", "a">>,
   patterns |-> <<
     <<"m", "u", "t", "u", "a", "l", " ", "o", "f", " ", "o", "m", "a", "h", "a">>,
     <<"m", "u", "t", "u", "a", "l", " ", "o", "m", "a", "h", "a">>>>],
  [brand |-> <<"G", "e", "r", "b", "e", "r">>,
   patterns |-> <<
     <<"g", "e", "r", "b", "e", "r">>,
     <<"g", "e", "r", "b", "e", "r", " ", "l", "i", "f", "e">>>>],
  [brand |-> <<"S", "a", "f", "e", "c", "o">>,
   patterns |-> <<
     <<"s", "a", "f", "e", "c", "o">>,
     <<"s", "a", "f", "e", "c", "o", " ", "i", "n", "s", "u", "r", "a", "n", "c", "e">>,
     <<"S", "a", "f", "e", "c", "o">>>>],
  [brand |-> <<"G", "r", "a", "n", "g", "e">>,
   patterns |-> <<
     <<"g", "r", "a", "n", "g", "e">>,
     <<"g", "r", "a", "n", "g", "e", " ", "i", "n", "s", "u", "r", "a", "n", "c", "e">>,
     <<"g", "r", "a", "n", "g", "e", " ", "m", "u", "t", "u", "a", "l">>>>],
  [brand |-> <<"O", "t", "t", "o">>,
   patterns |-> <<
     <<"o", "t", "t", "o">>,
     <<"o", "t", "t", "o", " ", "i", "n", "s", "u", "r", "a", "n", "c", "e">>,
     <<"O", "t", "t", "o">>>>],
  [brand |-> <<"N", "J", "M">>,
   patterns |-> <<
     <<"n", "j", "m">>,
     <<"n", "e", "w", " ", "j", "e", "r", "s", "e", "y", " ", "m", "a", "n", "u", "f", "a", "c", "t", "u", "r", "e", "r", "s">>,
     <<"n", "j", "m", " ", "i", "n", "s", "u", "r", "a", "n", "c", "e">>>>],
  [brand |-> <<"A", "n", "t", "h", "e", "m">>,
   patterns |-> <<
     <<"a", "n", "t", "h", "e", "m">>,
     <<"a", "n", "t", "h", "e", "m", " ", "i", "n", "s", "u", "r", "a", "n", "c", "e">>,
     <<"a", "n", "t", "h", "e", "m", " ", "b", "l", "u", "e", " ", "c", "r", "o", "s", "s">>,
     <<"a", "n", "t", "h", "e", "m", " ", "b", "c", "b", "s">>>>],
  [brand |-> <<"F", "r", "e", "d", " ", "L", "o", "y", "a">>,
   patterns |-> <<
     <<"f", "r", "e", "d", " ", "l", "o", "y", "a">>,
     <<"f", "r", "e", "d", "l", "o", "y", "a">>,
     <<"f", "r", "e", "d", " ", "l", "o", "y", "a", " ", "i", "n", "s", "u", "r", "a", "n", "c", "e">>>>],
  [brand |-> <<"P", "r", "o", "n", "t", "o">>,
   patterns |-> <<
     <<"p", "r", "o", "n", "t", "o">>,
     <<"p", "r", "o", "n", "t", "o", " ", "i", "n", "s", "u", "r", "a", "n", "c", "e">>>>],
  [brand |-> <<"E", "l", "e", "p", "h", "a", "n", "t">>,
   patterns |-> <<
     <<"e", "l", "e", "p", "h", "a", "n", "t">>,
     <<"e", "l", "e", "p", "h", "a", "n", "t", " ", "i", "n", "s", "u", "r", "a", "n", "c", "e">>>>],
  [brand |-> <<"Z", "e", "b", "r", "a">>,
   patterns |-> <<
     <<"z", "e", "b", "r", "a">>,
     <<"z", "e", "b", "r", "a", " ", "i", "n", "s", "u", "r", "a", "n", "c", "e">>>>],
  [brand |-> <<"A", "m", "i", "c", "a">>,
   patterns |-> <<
     <<"a", "m", "i", "c", "a">>,
     <<"a", "m", "i", "c", "a", " ", "i", "n", "s", "u", "r", "a", "n", "c", "e">>,
     <<"a", "m", "i", "c", "a", " ", "m", "u", "t", "u", "a", "l">>>>]>>

\* 176-199
non_answer_patterns == <<
  <<"n", "o">>, <<"n", "o", "n", "e">>, <<"n", "o", "t", "h", "i", "n", "g">>,
  <<"n", "a">>, <<"n", "/", "a">>, <<"n", "a", "d", "a">>, <<"n", "o", "p", "e">>,
  <<"n", " ", "a">>, <<"n", "o", " ", "e">>, <<"N", "o">>, <<"N", "o", "n", "e">>,
  <<"N", "o", "t", "h", "i", "n", "g">>, <<"N", "a">>, <<"N", "a", " ">>,
  <<"N", "o", "n", "e", " ">>, <<"N", "o", "t", "h", "i", "n", "g", " ">>,
  <<"N", "o", " ">>, <<"n", "o", "n", "e">>, <<"n", "o", "t", "h", "i", "n", "g">>,
  <<"N", "o", "n">>, <<"N", "o", "n", " ">>, <<"0">>, <<"1">>, <<"0", " ">>, <<"1", " ">>,
  <<"d", "o", "n", "t", " ", "k", "n", "o", "w">>,
  <<"d", "o", "n", "'", "t", " ", "k", "n", "o", "w">>,
  <<"d", "o", "n", " ", "t", " ", "k", "n", "o", "w">>,
  <<"d", "o", "n", "t", " ", "k", "n", "o", "w", " ", "a", "n", "y">>,
  <<"d", "o", "n", " ", "t", " ", "k", "n", "o", "w", " ", "a", "n", "y">>,
  <<"i", "d", "k">>, <<"i", " ", "d", "o", "n", "t", " ", "k", "n", "o", "w">>,
  <<"i", " ", "d", "o", "n", "'", "t", " ", "k", "n", "o", "w">>,
  <<"i", " ", "d", "o", "n", " ", "t", " ", "k", "n", "o", "w">>,
  <<"i", " ", "d", "o", "n", "t", " ", "k", "n", "o", "w", " ", "a", "n", "y">>,
  <<"i", " ", "d", "o", "n", " ", "t", " ", "k", "n", "o", "w", " ", "a", "n", "y">>,
  <<"i", " ", "d", "o", "n", " ", "t">>, <<"i", " ", "d", "o", "n", "t">>,
  <<"d", "o", "n", "t">>, <<"n", "o", "t", " ", "s", "u", "r", "e">>,
  <<"n", "o", " ", "i", "d", "e", "a">>, <<"u", "n", "k", "n", "o", "w", "n">>,
  <<"u", "n", "s", "u", "r", "e">>, <<"d", "u", "n", "n", "o">>,
  <<"n", "o", " ", "c", "l", "u", "e">>, <<"I", "d", "k">>, <<"I", "d", "k", " ">>,
  <<"I", " ", "d", "o", "n", "'", "t", " ", "k", "n", "o", "w">>,
  <<"I", " ", "d", "o", "n", "'", "t", " ", "k", "n", "o", "w", " ">>,
  <<"I", " ", "d", "o", "n", "t">>, <<"I", " ", "d", "o", "n", "t", " ">>,
  <<"D", "o", "n", "'", "t", " ", "k", "n", "o", "w">>,
  <<"D", "o", "n", "'", "t", " ", "k", "n", "o", "w", " ">>,
  <<"D", "o", "n", "'", "t", " ", "k", "n", "o", "w", " ", "a", "n", "y">>,
  <<"D", "o", "n", "'", "t", " ", "k", "n", "o", "w", " ", "a", "n", "y", " ">>,
  <<"N", "o", "t", " ", "s", "u", "r", "e">>,
  <<"N", "o", "t", " ", "s", "u", "r", "e", " ">>, <<"N", "o", " ", "i", "d", "e", "a">>,
  <<"N", "o", " ", "i", "d", "e", "a", " ">>, <<"U", "n", "k", "n", "o", "w", "n">>,
  <<"U", "n", "k", "n", "o", "w", "n", " ">>, <<"I", " ", "d", "o", "n", "'", "t">>,
  <<"I", " ", "d", "o", "n", "'", "t", " ">>,
  <<"I", " ", "d", "o", "n", "'", "t", " ", "k", "n", "o", "w", " ">>,
  <<"I", " ", "d", "o", "n", "'", "t", " ", "k", "n", "o", "w">>,
  <<"n", "o", "t", " ", "i", "n", "t", "e", "r", "e", "s", "t", "e", "d">>,
  <<"n", "o", " ", "o", "n", "e">>, <<"n", "o", "t", " ", "a", "n", "y">>,
  <<"c", "a", "n", "t", " ", "t", "h", "i", "n", "k">>,
  <<"n", "o", " ", "b", "r", "a", "n", "d">>,
  <<"d", "o", "n", "t", " ", "c", "a", "r", "e">>,
  <<"d", "o", "n", " ", "t", " ", "c", "a", "r", "e">>,
  <<"d", "o", "n", "t", " ", "u", "s", "e">>, <<"n", "o", "t", " ", "m", "u", "c", "h">>,
  <<"n", "o", "t", " ", "n", "o", "w">>, <<"n", "e", "v", "e", "r">>,
  <<"N", "e", "v", "e", "r">>, <<"N", "e", "v", "e", "r", " ">>, <<"O", "k">>,
  <<"O", "k", " ">>, <<"Y", "e", "s">>, <<"Y", "e", "s", " ">>, <<"Y", "e", "s">>,
  <<"Y", "e", "s", " ">>, <<"H", "i">>, <<"H", "i", " ">>, <<"C", "a", "r">>,
  <<"C", "a", "r", " ">>, <<"L", "i", "f", "e">>, <<"L", "i", "f", "e", " ">>,
  <<"S", "c", "a", "m">>, <<"S", "c", "a", "m", " ">>, <<>>, <<" ">>, <<" ", " ">>,
  <<" ", " ", " ">>, <<".">>, <<".", " ">>, <<"?">>, <<"?", " ">>>>

\* 226-235
partial_matches == <<<<<<"f", "a", "r", "m">>, <<"S", "t", "a", "t", "e", " ", "F", "a", "r", "m">>>>,
  <<<<"s", "t", "a", "t", "e">>, <<"S", "t", "a", "t", "e", " ", "F", "a", "r", "m">>>>,
  <<<<"p", "r", "o">>, <<"P", "r", "o", "g", "r", "e", "s", "s", "i", "v", "e">>>>,
  <<<<"p", "r", "o", "g">>, <<"P", "r", "o", "g", "r", "e", "s", "s", "i", "v", "e">>>>,
  <<<<"g", "e", "i">>, <<"G", "e", "i", "c", "o">>>>,
  <<<<"a", "l", "l">>, <<"A", "l", "l", "s", "t", "a", "t", "e">>>>,
  <<<<"l", "i", "b">>, <<"L", "i", "b", "e", "r", "t", "y", " ", "M", "u", "t", "u", "a", "l">>>>,
  <<<<"g", "e", "n">>, <<"T", "h", "e", " ", "G", "e", "n", "e", "r", "a", "l">>>>>>

\* 242-250
non_insurance_patterns == <<
  <<"n", "i", "k", "e">>, <<"a", "m", "a", "z", "o", "n">>, <<"a", "p", "p", "l", "e">>,
  <<"g", "o", "o", "g", "l", "e">>, <<"f", "a", "c", "e", "b", "o", "o", "k">>,
  <<"m", "i", "c", "r", "o", "s", "o", "f", "t">>, <<"w", "a", "l", "m", "a", "r", "t">>,
  <<"t", "a", "r", "g", "e", "t">>, <<"m", "c", "d", "o", "n", "a", "l", "d", "s">>,
  <<"s", "t", "a", "r", "b", "u", "c", "k", "s">>,
  <<"c", "o", "c", "a", " ", "c", "o", "l", "a">>, <<"p", "e", "p", "s", "i">>,
  <<"f", "o", "r", "d">>, <<"t", "o", "y", "o", "t", "a">>, <<"h", "o", "n", "d", "a">>,
  <<"c", "h", "e", "v", "r", "o", "l", "e", "t">>, <<"b", "m", "w">>,
  <<"o", "b", "a", "m", "a", "c", "a", "r", "e">>,
  <<"m", "e", "d", "i", "c", "a", "r", "e">>, <<"m", "e", "d", "i", "c", "a", "i", "d">>,
  <<"s", "o", "c", "i", "a", "l", " ", "s", "e", "c", "u", "r", "i", "t", "y">>,
  <<"z", "a", "r", "a">>, <<"i", "r", "a", "n">>, <<"l", "e", "m", "o", "n">>,
  <<"n", "i", "n", "e">>, <<"m", "e", "t", "r", "o", "p", "o", "l", "i", "t", "a", "n">>,
  <<"t", "h", "e", " ", "d", "u", "c", "k", " ", "o", "n", "e">>,
  <<"i", " ", "l", "o", "v", "e">>, <<"b", "e", "e">>>>

\* clean_brand_response, 201-257
clean_brand_response(answer) ==
  IF isna(answer) \/ answer = <<>> THEN NoneUnknown
  ELSE LET r == Normalize(answer)
           brands == {i \in 1..Len(brand_patterns) :
                        \E j \in 1..Len(brand_patterns[i].patterns) :
                          IsSubstring(brand_patterns[i].patterns[j], r)}
           partials == {i \in 1..Len(partial_matches) : partial_matches[i][1] = r}
       IN  IF \E i \in 1..Len(non_answer_patterns) : non_answer_patterns[i] = r
           THEN NoneUnknown
           ELSE IF brands # {}
           THEN brand_patterns[CHOOSE i \in brands : \A j \in brands : i <= j].brand
           ELSE IF Len(r) <= 5 /\ partials # {}
           THEN partial_matches[CHOOSE i \in partials : TRUE][2]
           ELSE IF \E i \in 1..Len(non_insurance_patterns) :
                     IsSubstring(non_insurance_patterns[i], r)
           THEN NonInsurance
           ELSE Title(r)

\* str.replace(old, new): every occurrence, left to right
RECURSIVE Replace(_, _, _)
Replace(t, old, new) ==
  IF Len(t) < Len(old) THEN t
  ELSE IF SubSeq(t, 1, Len(old)) = old
  THEN new \o Replace(SubSeq(t, Len(old) + 1, Len(t)), old, new)
  ELSE <<Head(t)>> \o Replace(Tail(t), old, new)

\* 267
separators == <<<<",">>, <<".">>, <<";">>, <<" ", "a", "n", "d", " ">>, <<"&">>, <<" ", "&", " ">>, <<" ", "+", " ">>, <<"|">>>>

RECURSIVE ReplaceAll(_, _)
ReplaceAll(t, seps) ==
  IF seps = <<>> THEN t ELSE ReplaceAll(Replace(t, Head(seps), <<"|">>), Tail(seps))

split_multiple_brands_keeps_unknown(answer) ==
  IF isna(answer) \/ answer = <<>> THEN <<NoneUnknown>>
  ELSE LET parts == SplitOn(ReplaceAll(Strip(answer), separators), "|")
           labels == [i \in 1..Len(parts) |->
                        IF Strip(parts[i]) = <<>> THEN <<>>
                        ELSE clean_brand_response(Strip(parts[i]))]
           brands == SelectSeq(labels, LAMBDA b : b # <<>>)
       IN  IF brands = <<>> THEN <<NoneUnknown>> ELSE brands

\* split_multiple_brands, 259-283
split_multiple_brands(answer) ==
  IF isna(answer) \/ answer = <<>> THEN <<NoneUnknown>>
  ELSE LET parts == SplitOn(ReplaceAll(Strip(answer), separators), "|")
           cleaned == [i \in 1..Len(parts) |->
                         IF Strip(parts[i]) = <<>> THEN NoneUnknown
                         ELSE clean_brand_response(Strip(parts[i]))]
           brands == SelectSeq(cleaned, LAMBDA b : b # NoneUnknown)
       IN  IF brands = <<>> THEN <<NoneUnknown>> ELSE brands

\* ', '.join(...)
RECURSIVE Join(_, _)
Join(ts, sep) ==
  IF ts = <<>> THEN <<>>
  ELSE IF Len(ts) = 1 THEN ts[1]
  ELSE ts[1] \o sep \o Join(Tail(ts), sep)

\* process_custom_survey_csv, 382-417
process_custom_survey_csv(df, geo, geo_info) ==
  [i \in 1..Len(df.rows) |->
     [age |-> df.rows[i].Age,
      gender |-> df.rows[i].Gender,
      geo |-> geo,
      Group_type |-> geo_info.Group_type,
      Group |-> geo_info.Group,
      client_type |-> df.rows[i].ClientType,
      session_weight |-> float(IF df.weights THEN df.rows[i].SessionWeight ELSE DefaultWeight),
      q1_answer |-> df.rows[i].Q1,
      q2_answer |-> df.rows[i].Q2,
      q1_cleaned |-> clean_brand_response(df.rows[i].Q1),
      q2_cleaned |-> Join(SelectSeq(split_multiple_brands(df.rows[i].Q2),
                                    LAMBDA b : b # <<>>), <<",", " ">>),
      q2_individual |-> <<>>]]

\* 426-430 / 446-450: rows whose cleaned answer is kept
KeptAnswers(df, col) ==
  SelectSeq(df, LAMBDA r : ~isna(r[col]) /\ r[col] # <<>> /\ r[col] # Unmapped)

\* 454-460: q2_cleaned split on ',', one row per piece, pieces stripped,
\* '' and UNMAPPED_RESPONSE dropped
explode_q2(q2_data) ==
  LET pieces(r) == SplitOn(r.q2_cleaned, ",")
      exploded(r) == [k \in 1..Len(pieces(r)) |->
                        [r EXCEPT !.q2_individual = Strip(pieces(r)[k])]]
      all == Flatten([i \in 1..Len(q2_data) |-> exploded(q2_data[i])])
  IN  SelectSeq(all, LAMBDA r : r.q2_individual # <<>> /\ r.q2_individual # Unmapped)

\* create_custom_question_tables, 419-478
create_custom_question_tables(custom_df) ==
  LET q1_data == KeptAnswers(custom_df, "q1_cleaned")
      q2_exploded == explode_q2(KeptAnswers(custom_df, "q2_cleaned"))
      top == IF q1_data # <<>>
             THEN ("top_of_mind" :> GroupCount(q1_data, "q1_cleaned")) ELSE <<>>
      know == IF q2_exploded # <<>>
              THEN ("knowledge" :> GroupCount(q2_exploded, "q2_individual")) ELSE <<>>
  IN  top @@ know

(***************************************************************************)
(* Geography of an archive: extract_dma_from_filename and the placeholder  *)
(***************************************************************************)
\* dma_data, 102-148, in the order of the list
dma_data == <<
  [dma |-> <<"A", "u", "s", "t", "i", "n", ",", " ", "T", "X">>,
   Group_type |-> <<"T", "E", "S", "T">>, Group |-> <<"1">>],
  [dma |-> <<"P", "h", "o", "e", "n", "i", "x", " ", "e", "t", " ", "a", "l", ",", " ", "A", "Z">>,
   Group_type |-> <<"T", "E", "S", "T">>, Group |-> <<"1">>],
  [dma |-> <<"D", "e", "n", "v", "e", "r", ",", " ", "C", "O">>,
   Group_type |-> <<"T", "E", "S", "T">>, Group |-> <<"1">>],
  [dma |-> <<"P", "o", "r", "t", "l", "a", "n", "d", ",", " ", "O", "R">>,
   Group_type |-> <<"T", "E", "S", "T">>, Group |-> <<"1">>],
  [dma |-> <<"S", "a", "n", " ", "A", "n", "t", "o", "n", "i", "o", ",", " ", "T", "X">>,
   Group_type |-> <<"T", "E", "S", "T">>, Group |-> <<"1">>],
  [dma |-> <<"N", "a", "s", "h", "v", "i", "l", "l", "e", ",", " ", "T", "N">>,
   Group_type |-> <<"C", "O", "N", "T", "R", "O", "L">>, Group |-> <<"1">>],
  [dma |-> <<"C", "l", "e", "v", "e", "l", "a", "n", "d", " ", "e", "t", " ", "a", "l", ",", " ", "O", "H">>,
   Group_type |-> <<"C", "O", "N", "T", "R", "O", "L">>, Group |-> <<"1">>],
  [dma |-> <<"W", "a", "c", "o", "-", "T", "e", "m", "p", "l", "e", "-", "B", "r", "y", "a", "n", ",", " ", "T", "X">>,
   Group_type |-> <<"C", "O", "N", "T", "R", "O", "L">>, Group |-> <<"1">>],
  [dma |-> <<"C", "i", "n", "c", "i", "n", "n", "a", "t", "i", ",", " ", "O", "H">>,
   Group_type |-> <<"C", "O", "N", "T", "R", "O", "L">>, Group |-> <<"b", "o", "t", "h">>],
  [dma |-> <<"T", "u", "c", "s", "o", "n", "(", "S", "i", "e", "r", "r", "a", " ", "V", "i", "s", "t", "a", ")", ",", " ", "A", "Z">>,
   Group_type |-> <<"C", "O", "N", "T", "R", "O", "L">>, Group |-> <<"1">>],
  [dma |-> <<"C", "o", "l", "o", "r", "a", "d", "o", " ", "S", "p", "r", "g", "s", " ", "e", "t", " ", "a", "l", ",", " ", "C", "O">>,
   Group_type |-> <<"C", "O", "N", "T", "R", "O", "L">>, Group |-> <<"1">>],
  [dma |-> <<"K", "n", "o", "x", "v", "i", "l", "l", "e", ",", " ", "T", "N">>,
   Group_type |-> <<"C", "O", "N", "T", "R", "O", "L">>, Group |-> <<"1">>],
  [dma |-> <<"M", "e", "m", "p", "h", "i", "s", ",", " ", "T", "N">>,
   Group_type |-> <<"C", "O", "N", "T", "R", "O", "L">>, Group |-> <<"1">>],
  [dma |-> <<"E", "u", "g", "e", "n", "e", ",", " ", "O", "R">>,
   Group_type |-> <<"C", "O", "N", "T", "R", "O", "L">>, Group |-> <<"1">>],
  [dma |-> <<"E", "l", " ", "P", "a", "s", "o", " ", "e", "t", " ", "a", "l", ",", " ", "T", "X", "-", "N", "M">>,
   Group_type |-> <<"C", "O", "N", "T", "R", "O", "L">>, Group |-> <<"1">>],
  [dma |-> <<"S", "p", "o", "k", "a", "n", "e", ",", " ", "W", "A">>,
   Group_type |-> <<"C", "O", "N", "T", "R", "O", "L">>, Group |-> <<"1">>],
  [dma |-> <<"T", "y", "l", "e", "r", "-", "L", "o", "n", "g", "v", "i", "e", "w", " ", "e", "t", " ", "a", "l", ",", " ", "T", "X">>,
   Group_type |-> <<"C", "O", "N", "T", "R", "O", "L">>, Group |-> <<"1">>],
  [dma |-> <<"D", "a", "y", "t", "o", "n", ",", " ", "O", "H">>,
   Group_type |-> <<"C", "O", "N", "T", "R", "O", "L">>, Group |-> <<"1">>],
  [dma |-> <<"L", "u", "b", "b", "o", "c", "k", ",", " ", "T", "X">>,
   Group_type |-> <<"C", "O", "N", "T", "R", "O", "L">>, Group |-> <<"1">>],
  [dma |-> <<"C", "h", "a", "t", "t", "a", "n", "o", "o", "g", "a", ",", " ", "T", "N">>,
   Group_type |-> <<"C", "O", "N", "T", "R", "O", "L">>, Group |-> <<"1">>],
  [dma |-> <<"T", "o", "l", "e", "d", "o", ",", " ", "O", "H">>,
   Group_type |-> <<"C", "O", "N", "T", "R", "O", "L">>, Group |-> <<"1">>],
  [dma |-> <<"Y", "a", "k", "i", "m", "a", " ", "e", "t", " ", "a", "l", ",", " ", "W", "A">>,
   Group_type |-> <<"C", "O", "N", "T", "R", "O", "L">>, Group |-> <<"b", "o", "t", "h">>],
  [dma |-> <<"T", "r", "i", "-", "C", "i", "t", "i", "e", "s", ",", " ", "T", "N", "-", "V", "A">>,
   Group_type |-> <<"C", "O", "N", "T", "R", "O", "L">>, Group |-> <<"1">>],
  [dma |-> <<"R", "o", "c", "k", "f", "o", "r", "d", ",", " ", "I", "L">>,
   Group_type |-> <<"C", "O", "N", "T", "R", "O", "L">>, Group |-> <<"1">>],
  [dma |-> <<"Y", "o", "u", "n", "g", "s", "t", "o", "w", "n", ",", " ", "O", "H">>,
   Group_type |-> <<"C", "O", "N", "T", "R", "O", "L">>, Group |-> <<"b", "o", "t", "h">>],
  [dma |-> <<"A", "m", "a", "r", "i", "l", "l", "o", ",", " ", "T", "X">>,
   Group_type |-> <<"C", "O", "N", "T", "R", "O", "L">>, Group |-> <<"b", "o", "t", "h">>],
  [dma |-> <<"B", "e", "a", "u", "m", "o", "n", "t", "-", "P", "o", "r", "t", " ", "A", "r", "t", "h", "u", "r", ",", " ", "T", "X">>,
   Group_type |-> <<"C", "O", "N", "T", "R", "O", "L">>, Group |-> <<"1">>],
  [dma |-> <<"A", "b", "i", "l", "e", "n", "e", "-", "S", "w", "e", "e", "t", "w", "a", "t", "e", "r", ",", " ", "T", "X">>,
   Group_type |-> <<"C", "O", "N", "T", "R", "O", "L">>, Group |-> <<"1">>],
  [dma |-> <<"S", "h", "e", "r", "m", "a", "n", "-", "A", "d", "a", ",", " ", "T", "X", "-", "O", "K">>,
   Group_type |-> <<"C", "O", "N", "T", "R", "O", "L">>, Group |-> <<"1">>],
  [dma |-> <<"W", "i", "c", "h", "i", "t", "a", " ", "F", "l", "s", " ", "e", "t", " ", "a", "l", ",", " ", "T", "X", "-", "O", "K">>,
   Group_type |-> <<"C", "O", "N", "T", "R", "O", "L">>, Group |-> <<"1">>],
  [dma |-> <<"S", "a", "n", " ", "A", "n", "g", "e", "l", "o", ",", " ", "T", "X">>,
   Group_type |-> <<"C", "O", "N", "T", "R", "O", "L">>, Group |-> <<"b", "o", "t", "h">>],
  [dma |-> <<"C", "o", "r", "p", "u", "s", " ", "C", "h", "r", "i", "s", "t", "i", ",", " ", "T", "X">>,
   Group_type |-> <<"C", "O", "N", "T", "R", "O", "L">>, Group |-> <<"1">>],
  [dma |-> <<"G", "r", "a", "n", "d", " ", "J", "u", "n", "c", "t", "i", "o", "n", " ", "e", "t", " ", "a", "l", ",", " ", "C", "O">>,
   Group_type |-> <<"C", "O", "N", "T", "R", "O", "L">>, Group |-> <<"b", "o", "t", "h">>],
  [dma |-> <<"L", "a", "r", "e", "d", "o", ",", " ", "T", "X">>,
   Group_type |-> <<"C", "O", "N", "T", "R", "O", "L">>, Group |-> <<"1">>],
  [dma |-> <<"Y", "u", "m", "a", "-", "E", "l", " ", "C", "e", "n", "t", "r", "o", ",", " ", "A", "Z", "-", "C", "A">>,
   Group_type |-> <<"C", "O", "N", "T", "R", "O", "L">>, Group |-> <<"b", "o", "t", "h">>],
  [dma |-> <<"J", "a", "c", "k", "s", "o", "n", ",", " ", "T", "N">>,
   Group_type |-> <<"C", "O", "N", "T", "R", "O", "L">>, Group |-> <<"1">>],
  [dma |-> <<"V", "i", "c", "t", "o", "r", "i", "a", ",", " ", "T", "X">>,
   Group_type |-> <<"C", "O", "N", "T", "R", "O", "L">>, Group |-> <<"1">>],
  [dma |-> <<"W", "h", "e", "e", "l", "i", "n", "g", " ", "e", "t", " ", "a", "l", ",", " ", "W", "V", "-", "O", "H">>,
   Group_type |-> <<"C", "O", "N", "T", "R", "O", "L">>, Group |-> <<"1">>],
  [dma |-> <<"L", "i", "m", "a", ",", " ", "O", "H">>,
   Group_type |-> <<"C", "O", "N", "T", "R", "O", "L">>, Group |-> <<"1">>],
  [dma |-> <<"Z", "a", "n", "e", "s", "v", "i", "l", "l", "e", ",", " ", "O", "H">>,
   Group_type |-> <<"C", "O", "N", "T", "R", "O", "L">>, Group |-> <<"b", "o", "t", "h">>],
  [dma |-> <<"C", "h", "i", "c", "a", "g", "o", ",", " ", "I", "L">>,
   Group_type |-> <<"T", "E", "S", "T">>, Group |-> <<"2">>],
  [dma |-> <<"C", "h", "a", "m", "p", "a", "i", "g", "n", " ", "e", "t", " ", "a", "l", ",", " ", "I", "L">>,
   Group_type |-> <<"C", "O", "N", "T", "R", "O", "L">>, Group |-> <<"2">>],
  [dma |-> <<"P", "e", "o", "r", "i", "a", "-", "B", "l", "o", "o", "m", "i", "n", "g", "t", "o", "n", ",", " ", "I", "L">>,
   Group_type |-> <<"C", "O", "N", "T", "R", "O", "L">>, Group |-> <<"2">>],
  [dma |-> <<"D", "a", "v", "e", "n", "p", "o", "r", "t", " ", "e", "t", " ", "a", "l", ",", " ", "I", "A", "-", "I", "L">>,
   Group_type |-> <<"C", "O", "N", "T", "R", "O", "L">>, Group |-> <<"2">>],
  [dma |-> <<"M", "i", "n", "o", "t", " ", "e", "t", " ", "a", "l", ",", " ", "N", "D">>,
   Group_type |-> <<"C", "O", "N", "T", "R", "O", "L">>, Group |-> <<"2">>]>>

\* manual_mapping, 163-171
manual_mapping == <<
  <<<<"[", "L", "e", "m", "o", "n", "a", "d", "e", "]", " ", "M", "M", "M", " ", "_", " ", "B", "r", "a", "n", "d", " ", "T", "r", "a", "c", "k", "e", "r", " ", "-", " ", "C", "o", "l", "o", "r", "a", "d", "o", " ", "S", "p", "r", "i", "n", "g", "s", ",", ".", "z", "i", "p">>,
    <<"C", "o", "l", "o", "r", "a", "d", "o", " ", "S", "p", "r", "g", "s", " ", "e", "t", " ", "a", "l", ",", " ", "C", "O">>>>,
  <<<<"[", "L", "e", "m", "o", "n", "a", "d", "e", "]", " ", "M", "M", "M", " ", "_", " ", "B", "r", "a", "n", "d", " ", "T", "r", "a", "c", "k", "e", "r", " ", "-", " ", "C", "o", "r", "p", "u", "s", " ", "C", "h", "r", "i", "s", "t", "i", ",", " ", "T", ".", "z", "i", "p">>,
    <<"C", "o", "r", "p", "u", "s", " ", "C", "h", "r", "i", "s", "t", "i", ",", " ", "T", "X">>>>,
  <<<<"[", "L", "e", "m", "o", "n", "a", "d", "e", "]", " ", "M", "M", "M", " ", "_", " ", "B", "r", "a", "n", "d", " ", "T", "r", "a", "c", "k", "e", "r", " ", "-", " ", "G", "r", "a", "n", "d", " ", "J", "u", "n", "c", "t", "i", "o", "n", ",", " ", "C", ".", "z", "i", "p">>,
    <<"G", "r", "a", "n", "d", " ", "J", "u", "n", "c", "t", "i", "o", "n", " ", "e", "t", " ", "a", "l", ",", " ", "C", "O">>>>,
  <<<<"[", "L", "e", "m", "o", "n", "a", "d", "e", "]", " ", "M", "M", "M", " ", "_", " ", "B", "r", "a", "n", "d", " ", "T", "r", "a", "c", "k", "e", "r", " ", "-", " ", "T", "u", "c", "s", "o", "n", "(", "S", "i", "e", "r", "r", "a", " ", "V", "i", "s", ".", "z", "i", "p">>,
    <<"T", "u", "c", "s", "o", "n", "(", "S", "i", "e", "r", "r", "a", " ", "V", "i", "s", "t", "a", ")", ",", " ", "A", "Z">>>>,
  <<<<"[", "L", "e", "m", "o", "n", "a", "d", "e", "]", " ", "M", "M", "M", " ", "_", " ", "B", "r", "a", "n", "d", " ", "T", "r", "a", "c", "k", "e", "r", " ", "-", " ", "W", "i", "c", "h", "i", "t", "a", " ", "F", "a", "l", "l", "s", ",", " ", "T", "X", ".", "z", "i", "p">>,
    <<"W", "i", "c", "h", "i", "t", "a", " ", "F", "l", "s", " ", "e", "t", " ", "a", "l", ",", " ", "T", "X", "-", "O", "K">>>>,
  <<<<"[", "L", "e", "m", "o", "n", "a", "d", "e", "]", " ", "M", "M", "M", " ", "-", " ", "C", "o", "l", "o", "r", "a", "d", "o", " ", "S", "p", "r", "i", "n", "g", "s", ",", " ", "C", "O", " ", "(", "C", "o", "n", "t", "r", "o", "l", ")", ".", "z", "i", "p">>,
    <<"C", "o", "l", "o", "r", "a", "d", "o", " ", "S", "p", "r", "g", "s", " ", "e", "t", " ", "a", "l", ",", " ", "C", "O">>>>,
  <<<<"[", "L", "e", "m", "o", "n", "a", "d", "e", "]", " ", "M", "M", "M", " ", "-", " ", "W", "i", "c", "h", "i", "t", "a", " ", "F", "a", "l", "l", "s", ",", " ", "T", "X", "-", "O", "K", " ", "(", "C", "o", "n", "t", "r", "o", "l", ")", ".", "z", "i", "p">>,
    <<"W", "i", "c", "h", "i", "t", "a", " ", "F", "l", "s", " ", "e", "t", " ", "a", "l", ",", " ", "T", "X", "-", "O", "K">>>>>>

\* truncation_fixes, 192-197, in the order of the dict
truncation_fixes == <<
  <<<<"w", "a", "t", "e">>, <<"w", "a", "t", "e", "r">>>>,
  <<<<" ", "a", "r", "t">>, <<" ", "a", "r", "t", "h", "u", "r">>>>,
  <<<<"c", "o", "n", "t", "r">>, <<"c", "o", "n", "t", "r", "o", "l">>>>,
  <<<<"s", "w", "e", "e", "t", "w", "a", "t", "e">>, <<"s", "w", "e", "e", "t", "w", "a", "t", "e", "r">>>>>>

\* extract_dma_from_filename returns None
NoDma == <<"None">>

UnknownDma == <<"U", "n", "k", "n", "o", "w", "n", " ", "D", "M", "A">>

UnknownInfo == [Group_type |-> <<"U", "N", "K", "N", "O", "W", "N">>, Group |-> <<"U", "N", "K", "N", "O", "W", "N">>]

\* [A-Za-z\s\-()]
CityChar(c) == IsLetter(c) \/ c \in {" ", "-", "(", ")"}

IsUpper(c) == c \in Range(UpperCase)

\* The run of city characters around position k of t.
RunStart(t, k) ==
  CHOOSE b \in 1..k : (\A j \in b..k : CityChar(t[j])) /\ (b = 1 \/ ~CityChar(t[b - 1]))

RunEnd(t, k) ==
  CHOOSE e \in k..Len(t) :
    (\A j \in k..e : CityChar(t[j])) /\ (e = Len(t) \/ ~CityChar(t[e + 1]))

Least(S) == CHOOSE x \in S : \A y \in S : x <= y

Greatest(S) == CHOOSE x \in S : \A y \in S : y <= x

NoMatch == <<"no match">>

\* re.search of ([A-Za-z\s\-()]+),\s*([A-Z]{2}(?:-[A-Z]{2})?) and of
\* ([A-Za-z\s\-()]+),\s*([A-Z]{2}): the first group of the leftmost match.
\* The group runs up to a comma that is followed by blanks and two capital
\* letters; both patterns match at the same place with the same first group.
CityBeforeState(t) ==
  LET commas == {c \in 2..Len(t) :
                   /\ t[c] = ","
                   /\ CityChar(t[c - 1])
                   /\ \E k \in (c + 1)..(Len(t) - 1) :
                        /\ \A j \in (c + 1)..(k - 1) : t[j] = " "
                        /\ IsUpper(t[k]) /\ IsUpper(t[k + 1])}
  IN  IF commas = {} THEN NoMatch
      ELSE SubSeq(t, RunStart(t, Least(commas) - 1), Least(commas) - 1)

\* re.search of - ([A-Za-z\s\-()]+), ([A-Z]{2})
CityAfterDash(t) ==
  LET starts == {i \in 1..(Len(t) - 6) :
                   /\ t[i] = "-" /\ t[i + 1] = " " /\ CityChar(t[i + 2])
                   /\ LET e == RunEnd(t, i + 2)
                      IN  /\ e + 4 <= Len(t)
                          /\ t[e + 1] = "," /\ t[e + 2] = " "
                          /\ IsUpper(t[e + 3]) /\ IsUpper(t[e + 4])}
  IN  IF starts = {} THEN NoMatch
      ELSE SubSeq(t, Least(starts) + 2, RunEnd(t, Least(starts) + 2))

\* The hyphens that can end the first group of - ([A-Za-z\s\-()]+)-([A-Za-z\s]+)
\* when the match starts at i.
Hyphens(t, i) ==
  {j \in (i + 3)..(Len(t) - 1) :
     /\ t[j] = "-"
     /\ \A k \in (i + 2)..(j - 1) : CityChar(t[k])
     /\ (IsLetter(t[j + 1]) \/ t[j + 1] = " ")}

\* re.search of - ([A-Za-z\s\-()]+)-([A-Za-z\s]+): the first group is greedy
CityBeforeHyphen(t) ==
  LET starts == {i \in 1..(Len(t) - 4) :
                   t[i] = "-" /\ t[i + 1] = " " /\ Hyphens(t, i) # {}}
  IN  IF starts = {} THEN NoMatch
      ELSE SubSeq(t, Least(starts) + 2, Greatest(Hyphens(t, Least(starts))) - 1)

\* patterns, 177-182: the city part each pattern finds, in order
PatternCities(t) ==
  <<CityBeforeState(t), CityBeforeState(t), CityAfterDash(t), CityBeforeHyphen(t)>>

\* str.endswith
TextEndsWith(t, suffix) ==
  Len(suffix) <= Len(t) /\ SubSeq(t, Len(t) - Len(suffix) + 1, Len(t)) = suffix

\* 199-201
RECURSIVE FixTruncations(_, _)
FixTruncations(city_clean, fixes) ==
  IF fixes = <<>> THEN city_clean
  ELSE FixTruncations(
         IF TextEndsWith(city_clean, Head(fixes)[1])
         THEN Replace(city_clean, Head(fixes)[1], Head(fixes)[2])
         ELSE city_clean,
         Tail(fixes))

\* 205-212: the test of one key of the lookup
DmaMatches(city_clean, dma_key) ==
  /\ "," \in Range(dma_key)
  /\ LET dma_city == Lower(Strip(SplitOn(dma_key, ",")[1]))
         words == SplitOn(city_clean, "-")
     IN  \/ city_clean = dma_city
         \/ IsSubstring(city_clean, dma_city)
         \/ IsSubstring(dma_city, city_clean)
         \/ \E k \in 1..Len(words) : Len(words[k]) > 3 /\ IsSubstring(words[k], dma_city)

\* 184-212 for one pattern: the first key of the lookup that matches
DmaForCity(city_part) ==
  LET city_clean == FixTruncations(Lower(Strip(city_part)), truncation_fixes)
      hits == {i \in 1..Len(dma_data) : DmaMatches(city_clean, dma_data[i].dma)}
  IN  IF city_part = NoMatch \/ hits = {} THEN NoDma ELSE dma_data[Least(hits)].dma

\* extract_dma_from_filename, 160-214
extract_dma_from_filename(filename) ==
  LET manual == {i \in 1..Len(manual_mapping) : manual_mapping[i][1] = filename}
      cities == PatternCities(filename)
      found == {k \in 1..Len(cities) : DmaForCity(cities[k]) # NoDma}
  IN  IF manual # {} THEN manual_mapping[CHOOSE i \in manual : TRUE][2]
      ELSE IF found = {} THEN NoDma
      ELSE DmaForCity(cities[Least(found)])

\* self.dma_lookup.get(dma, {...})
dma_lookup(dma_key) ==
  LET rows == {i \in 1..Len(dma_data) : dma_data[i].dma = dma_key}
  IN  IF rows = {} THEN UnknownInfo
      ELSE [Group_type |-> dma_data[Greatest(rows)].Group_type,
            Group |-> dma_data[Greatest(rows)].Group]

geography_first_market(file_name) ==
  LET found == extract_dma_from_filename(file_name)
  IN  IF found = NoDma
      THEN [dma |-> dma_data[1].dma, dma_info |-> dma_lookup(dma_data[1].dma)]
      ELSE [dma |-> found, dma_info |-> dma_lookup(found)]

\* 583-589: the geography of the archive, or the placeholder
geography(file_name) ==
  LET found == extract_dma_from_filename(file_name)
  IN  IF found = NoDma
      THEN [dma |-> UnknownDma, dma_info |-> UnknownInfo]
      ELSE [dma |-> found, dma_info |-> dma_lookup(found)]

(***************************************************************************)
(* One CSV through parsing and aggregation                                 *)
(***************************************************************************)
MaxSheetRows == 2

RECURSIVE SeqsUpTo(_, _)
SeqsUpTo(S, n) ==
  IF n = 0 THEN {<<>>}
  ELSE LET shorter == SeqsUpTo(S, n - 1)
       IN  shorter \cup {Append(q, x) : q \in shorter, x \in S}

BrandRow(age, w, q1, q3) ==
  [Age |-> age, Gender |-> <<"F">>, ClientType |-> <<"w", "e", "b">>,
   SessionWeight |-> w, Q1 |-> q1, Q2 |-> NaN, Q3 |-> q3]

\* Rows of a brand tracker CSV: a misspelt brand; a multiple choice with a
\* blank after the delimiter; a row without an age; a row without an answer
\* to question 1; a row without a weight; a row whose weight is no number.
BrandRows ==
  {BrandRow(<<"2", "5">>, Weight(10), <<"g", "i", "e", "c", "o">>, NaN),
   BrandRow(<<"2", "5">>, Weight(10), <<"G", "e", "i", "c", "o", ";", " ", "A", "l", "l", "s", "t", "a", "t", "e">>, <<"G", "e", "i", "c", "o">>),
   BrandRow(NaN, Weight(15), <<"G", "E", "I", "C", "O">>, <<"G", "e", "i", "c", "o">>),
   BrandRow(<<"2", "5">>, Weight(15), NaN, <<"g", "e", "i", "c", "o">>),
   BrandRow(<<"2", "5">>, NaNWeight, <<"G", "e", "i", "c", "o">>, NaN),
   BrandRow(<<"2", "5">>, NotANumber(<<"1", "0", "%">>), <<"G", "e", "i", "c", "o">>, NaN)}

BrandSheets ==
  {[survey_type |-> "BRAND_TRACKER", weights |-> w, rows |-> rows] :
     w \in BOOLEAN, rows \in SeqsUpTo(BrandRows, MaxSheetRows) \ {<<>>}}

CustomRow(age, w, q1, q2) ==
  [Age |-> age, Gender |-> <<"F">>, ClientType |-> <<"w", "e", "b">>,
   SessionWeight |-> w, Q1 |-> q1, Q2 |-> q2, Q3 |-> NaN]

\* Rows of a custom survey CSV: a misspelt brand and a list of two; a row
\* with both answers empty; a non-answer and a list with a non-insurance
\* brand; a row without an age; a row whose weight is no number.
CustomRows ==
  {CustomRow(<<"2", "5">>, Weight(10), <<"g", "i", "e", "c", "o">>, <<"S", "t", "a", "t", "e", " ", "F", "a", "r", "m", ",", " ", "G", "e", "i", "c", "o">>),
   CustomRow(<<"2", "5">>, Weight(10), NaN, NaN),
   CustomRow(<<"2", "5">>, Weight(15), <<"i", "d", "k">>, <<"p", "r", "o", "g", "r", "e", "s", "s", "i", "v", "e", " ", "a", "n", "d", " ", "n", "i", "k", "e">>),
   CustomRow(NaN, Weight(10), <<"L", "e", "m", "o", "n", "a", "d", "e", "!">>, <<"n", "o", "n", "e">>),
   CustomRow(<<"2", "5">>, NotANumber(<<"1", "0", "%">>), <<"g", "e", "i", "c", "o">>, NaN)}

CustomSheets ==
  {[survey_type |-> "CUSTOM", weights |-> w, rows |-> rows] :
     w \in BOOLEAN, rows \in SeqsUpTo(CustomRows, MaxSheetRows) \ {<<>>}}

Sheets == BrandSheets \cup CustomSheets

\* Archives: a market named in full, a name of the manual mapping, a city
\* that is no market of the lookup, a market named without its state, and a
\* name without a place.
ArchiveNames ==
  {<<"[", "L", "e", "m", "o", "n", "a", "d", "e", "]", " ", "M", "M", "M", " ", "_", " ", "B", "r", "a", "n", "d", " ", "T", "r", "a", "c", "k", "e", "r", " ", "-", " ", "L", "a", "r", "e", "d", "o", ",", " ", "T", "X", ".", "z", "i", "p">>,
   <<"[", "L", "e", "m", "o", "n", "a", "d", "e", "]", " ", "M", "M", "M", " ", "_", " ", "B", "r", "a", "n", "d", " ", "T", "r", "a", "c", "k", "e", "r", " ", "-", " ", "W", "i", "c", "h", "i", "t", "a", " ", "F", "a", "l", "l", "s", ",", " ", "T", "X", ".", "z", "i", "p">>,
   <<"[", "L", "e", "m", "o", "n", "a", "d", "e", "]", " ", "M", "M", "M", " ", "_", " ", "B", "r", "a", "n", "d", " ", "T", "r", "a", "c", "k", "e", "r", " ", "-", " ", "B", "o", "s", "t", "o", "n", ",", " ", "M", "A", ".", "z", "i", "p">>,
   <<"[", "L", "e", "m", "o", "n", "a", "d", "e", "]", " ", "M", "M", "M", " ", "-", " ", "T", "r", "i", "-", "C", "i", "t", "i", "e", "s", ".", "z", "i", "p">>,
   <<"[", "L", "e", "m", "o", "n", "a", "d", "e", "]", " ", "M", "M", "M", " ", "-", " ", "N", "a", "t", "i", "o", "n", "a", "l", ".", "z", "i", "p">>}

\* main.py 59: the kind of survey is read off the name of the archive
SurveyTypeOf(file_name) ==
  IF IsSubstring(<<"B", "r", "a", "n", "d", " ", "T", "r", "a", "c", "k", "e", "r">>, file_name) THEN "BRAND_TRACKER" ELSE "CUSTOM"

\* 583-589: the geography of the archive
ExtractDma(file_name) ==
  /\ stage = "none"
  /\ stage' = "dma"
  /\ original_filename' = file_name
  /\ dma' = geography(file_name).dma
  /\ dma_info' = geography(file_name).dma_info
  /\ UNCHANGED <<front, store, locals, history, direct, cleaning, study, notify, upload, sheet,
                 responses, question_tables>>

\* pd.read_csv, 624
ReadCsv(df) ==
  /\ stage = "dma"
  /\ df.survey_type = SurveyTypeOf(original_filename)
  /\ stage' = "read"
  /\ sheet' = df
  /\ UNCHANGED <<front, store, locals, history, direct, cleaning, study, notify, upload, responses,
                 question_tables, original_filename, dma, dma_info>>

\* 627-629 / 651-653: the response frame of the CSV; an exception of the
\* row loop ends the processing of the CSV (715-718)
ProcessCsv ==
  /\ stage = "read"
  /\ IF weight_raises(sheet)
     THEN /\ stage' = "failed"
          /\ responses' = <<>>
     ELSE /\ stage' = "processed"
          /\ responses' = IF sheet.survey_type = "BRAND_TRACKER"
                          THEN process_brand_tracker_csv(sheet, dma, dma_info)
                          ELSE process_custom_survey_csv(sheet, dma, dma_info)
  /\ UNCHANGED <<front, store, locals, history, direct, cleaning, study, notify, upload, sheet,
                 question_tables, original_filename, dma, dma_info>>

\* 640 / 662: the aggregated frames of the CSV
CreateQuestionTables ==
  /\ stage = "processed"
  /\ stage' = "aggregated"
  /\ question_tables' = IF sheet.survey_type = "BRAND_TRACKER"
                        THEN create_brand_question_tables(responses)
                        ELSE create_custom_question_tables(responses)
  /\ UNCHANGED <<front, store, locals, history, direct, cleaning, study, notify, upload, sheet,
                 responses, original_filename, dma, dma_info>>

NextAggregate ==
  \/ \E file_name \in ArchiveNames : ExtractDma(file_name)
  \/ \E df \in Sheets : ReadCsv(df)
  \/ ProcessCsv
  \/ CreateQuestionTables

SpecAggregate == Init /\ [][NextAggregate]_vars

(***************************************************************************)
(* The cleaner on its own: direct calls of CustomSurveyDataCleaner         *)
(***************************************************************************)
MaxPieces == 2

\* Every variant string of the brand table.
Variants ==
  UNION {Range(brand_patterns[i].patterns) : i \in 1..Len(brand_patterns)}

\* Raw answers handed to clean_brand_response: every variant of the brand
\* table, every entry of the non-answer table, an empty cell, and answers
\* that are in neither table.
RawAnswers ==
  Variants \cup Range(non_answer_patterns)
  \cup {NaN, <<>>, <<"S", "t", ".", " ", "P", "a", "u", "l", " ", "T", "r", "a", "v", "e", "l", "e", "r", "s", "!">>, <<" ", " ", "G", "E", "I", "C", "O", " ", " ">>, <<"m", "y", " ", "d", "o", "g">>}

\* Pieces of a multi-brand answer: brands (one misspelt), a non-answer, a
\* non-insurance brand, a name in no table, and nothing.
Pieces == {<<"G", "e", "i", "c", "o">>, <<"s", "t", "a", "t", "e", " ", "f", "a", "r", "m">>, <<"i", "d", "k">>, <<"n", "i", "k", "e">>, <<"g", "i", "e", "c", "o", " ", "i", "n", "s">>, <<>>}

\* The separators respondents put between the pieces.
UsedSeparators == Range(separators)

Blank(t) == Strip(t) = <<>>

\* A raw answer written as pieces with the separator sep between them.  A
\* separator that is written with blanks around it separates two pieces
\* that are there (the answer is stripped before it is split).
Written(pieces, sep) ==
  /\ pieces # <<>>
  /\ (Head(sep) = " " \/ Last(sep) = " ") =>
       ~Blank(Head(pieces)) /\ ~Blank(Last(pieces))

\* cleaner.clean_brand_response(v)
CleanResponse(v) ==
  /\ cleaner_op = "none"
  /\ cleaner_op' = "clean_brand_response"
  /\ cleaner_in' = v
  /\ cleaned_answer' = clean_brand_response(v)
  /\ UNCHANGED <<front, store, locals, history, direct, notify, upload, aggregate, study,
                 cleaner_pieces, brand_list>>

\* cleaner.split_multiple_brands(v), v written from pieces
SplitBrands(pieces, sep) ==
  /\ cleaner_op = "none"
  /\ Written(pieces, sep)
  /\ cleaner_op' = "split_multiple_brands"
  /\ cleaner_in' = Join(pieces, sep)
  /\ cleaner_pieces' = pieces
  /\ brand_list' = split_multiple_brands(Join(pieces, sep))
  /\ UNCHANGED <<front, store, locals, history, direct, notify, upload, aggregate, study,
                 cleaned_answer>>

\* cleaner.split_multiple_brands of an empty cell
SplitNull ==
  /\ cleaner_op = "none"
  /\ cleaner_op' = "split_multiple_brands"
  /\ cleaner_in' = NaN
  /\ brand_list' = split_multiple_brands(NaN)
  /\ UNCHANGED <<front, store, locals, history, direct, notify, upload, aggregate, study,
                 cleaner_pieces, cleaned_answer>>

NextClean ==
  \/ \E v \in RawAnswers : CleanResponse(v)
  \/ \E pieces \in SeqsUpTo(Pieces, MaxPieces), sep \in UsedSeparators :
       SplitBrands(pieces, sep)
  \/ SplitNull

SpecClean == Init /\ [][NextClean]_vars

(***************************************************************************)
(* Study ids: extract_study_id_from_csv_name in successive interpreters    *)
(***************************************************************************)
MaxInterpreters == 2

\* The key of str hashing is drawn when an interpreter starts (PYTHONHASHSEED
\* unset: a fresh random key for every process).
Seeds == {0, 1, 2}

\* hash() of a str is a machine integer; ids are taken modulo the divisor of
\* 235.  Both are scaled to the integers of the model checker.
HashSpace == 65536

IdRange == 10000

Alphabet == LowerCase \o UpperCase \o Digits \o <<" ", "[", "]", ".", "_", "-">>

\* ord(c)
Code(c) == CHOOSE i \in 1..Len(Alphabet) : Alphabet[i] = c

\* hash(text) under the key of the interpreter: a keyed hash of the
\* characters, equal for equal text only as long as the key is the same.
RECURSIVE str_hash(_, _)
str_hash(key, t) ==
  IF t = <<>> THEN key
  ELSE (str_hash(key, SubSeq(t, 1, Len(t) - 1)) * 31 + Code(Last(t))) % HashSpace

\* str(n) of a natural number
RECURSIVE Decimal(_)
Decimal(n) ==
  IF n < 10 THEN <<Digits[n + 1]>>
  ELSE Decimal(n \div 10) \o <<Digits[(n % 10) + 1]>>

IsSpace(c) == c = " "

IsDigit(c) == c \in Range(Digits)

\* \s+ and \d+: the end of the longest run of blanks, of digits, that
\* starts at k (k - 1 when the run is empty).
SpaceRunEnd(t, k) ==
  Greatest({e \in (k - 1)..Len(t) : \A j \in k..e : IsSpace(t[j])})

DigitRunEnd(t, k) ==
  Greatest({e \in (k - 1)..Len(t) : \A j \in k..e : IsDigit(t[j])})

StudyTag == <<"[", "S", "t", "u", "d", "y">>

\* re.search(r'\[Study\s+(\d+)\]', csv_name): group 1 of the leftmost match
StudyDigits(csv_name) ==
  LET SpaceEnd(i) == SpaceRunEnd(csv_name, i + Len(StudyTag))
      DigitEnd(i) == DigitRunEnd(csv_name, SpaceEnd(i) + 1)
      matches == {i \in 1..(Len(csv_name) - Len(StudyTag)) :
                    /\ SubSeq(csv_name, i, i + Len(StudyTag) - 1) = StudyTag
                    /\ SpaceEnd(i) >= i + Len(StudyTag)
                    /\ DigitEnd(i) >= SpaceEnd(i) + 1
                    /\ DigitEnd(i) < Len(csv_name)
                    /\ csv_name[DigitEnd(i) + 1] = "]"}
  IN  IF matches = {} THEN NoMatch
      ELSE SubSeq(csv_name, SpaceEnd(Least(matches)) + 1, DigitEnd(Least(matches)))

IdPrefix == <<"i", "d", "_">>

\* extract_study_id_from_csv_name(csv_name) in an interpreter whose hash key
\* is key
extract_study_id_from_csv_name(key, csv_name) ==
  IF StudyDigits(csv_name) # NoMatch
  THEN IdPrefix \o StudyDigits(csv_name)
  ELSE IdPrefix \o Decimal(str_hash(key, csv_name) % IdRange)

\* Names of CSV entries: with the study tag, with the tag written with two
\* blanks, without a tag, and with the word but not the brackets.
CsvNames == {<<"B", "r", "a", "n", "d", " ", "T", "r", "a", "c", "k", "e", "r", " ", "[", "S", "t", "u", "d", "y", " ", "1", "2", "3", "]", " ", "a", ".", "c", "s", "v">>,
             <<"[", "S", "t", "u", "d", "y", " ", " ", "7", "]", ".", "c", "s", "v">>,
             <<"c", ".", "c", "s", "v">>,
             <<"S", "t", "u", "d", "y", " ", "5", ".", "c", "s", "v">>}

\* The container starts (or restarts): a new interpreter with a new key.
StartInterpreter(key) ==
  /\ interpreters < MaxInterpreters
  /\ interpreters' = interpreters + 1
  /\ hash_seed' = key
  /\ UNCHANGED <<front, store, locals, history, direct, notify, upload, aggregate,
                 cleaning, study_ids>>

\* processor.extract_study_id_from_csv_name(csv_name) in the running interpreter
ExtractStudyId(csv_name) ==
  /\ interpreters > 0
  /\ study_ids' = study_ids \cup
       {[csv_name |-> csv_name, interpreter |-> interpreters,
         study_id |-> extract_study_id_from_csv_name(hash_seed, csv_name)]}
  /\ UNCHANGED <<front, store, locals, history, direct, notify, upload, aggregate,
                 cleaning, hash_seed, interpreters>>

NextStudy ==
  \/ \E key \in Seeds : StartInterpreter(key)
  \/ \E csv_name \in CsvNames : ExtractStudyId(csv_name)

SpecStudy == Init /\ [][NextStudy]_vars

(***************************************************************************)
(* Properties                                                              *)
(***************************************************************************)
\* The pipeline returned its summary and the front door has answered.
Returned(p) == pc[p] = "done" /\ result[p].status = "success"

CheckedNames(p) == [i \in 1..Len(checked[p]) |-> checked[p][i].name]

NoQueryError(p) == \A i \in 1..Len(checked[p]) : ~checked[p][i].raised

\* Appends the pipeline makes for a CSV: the response rows and every
\* non-empty question table, none when the CSV holds no rows.
Appends(f) == IF Csv[f].rows = 0 THEN 0 ELSE 1 + Len(Csv[f].questions)

AppendSteps == {"parse", "responses", "questions"}

\* C1 (as claimed): a run of an archive that starts after a completed run of
\* the same archive in which every CSV was appended in full, and whose
\* ledger queries all succeed, finds every CSV processed, makes no table or
\* ledger write, and returns csv_files_processed = [] and
\* csv_files_skipped = every CSV of the archive.
C1_RedeliveryIsNoOp ==
  \A p \in Procs :
    (after_clean[p] /\ NoQueryError(p)) =>
      /\ \A i \in 1..Len(checked[p]) : checked[p][i].answer
      /\ "table_write" \notin ops[p]
      /\ "ledger_write" \notin ops[p]
      /\ Returned(p) =>
           /\ csv_files_processed[p] = <<>>
           /\ csv_files_skipped[p] = csv_files[p]

\* C2 (as claimed): when a run returns, every CSV with rows whose appends all
\* succeeded with every column has exactly one ledger row in the ledger
\* table of its survey type and is listed in csv_files_processed.
C2_OneLedgerRowPerAppendedCsv ==
  \A p \in Procs :
    Returned(p) =>
      \A f \in fully_appended[p] :
        Csv[f].rows > 0 =>
          /\ LedgerRows(LedgerTable(survey_type[p]), f) = 1
          /\ f \in Range(csv_files_processed[p])

\* C3: a run arrives at the ledger call for a CSV only after every append
\* of that CSV has returned and none of its steps raised; and a ledger row
\* for a CSV is written only by a run standing at that call for that CSV,
\* so never for a CSV whose parsing or appending raised in that run.
C3_LedgerWriteAfterAppends ==
  [][/\ \A p \in Procs :
          pc'[p] = "mark" =>
            /\ appends_done'[p] = Appends(csv_files'[p][idx'[p]])
            /\ \A step \in AppendSteps :
                 <<csv_files'[p][idx'[p]], step>> \notin raised_on'[p]
     /\ \A t \in LedgerTables :
          \A f \in {g \in DOMAIN ledger'[t] :
                      g \notin DOMAIN ledger[t] \/ ledger'[t][g] # ledger[t][g]} :
            \E p \in Procs :
              /\ pc[p] = "mark"
              /\ Current(p) = f
              /\ LedgerTable(survey_type[p]) = t
              /\ appends_done[p] = Appends(f)
              /\ \A step \in AppendSteps : <<f, step>> \notin raised_on'[p]]_vars

\* C3 witness: a run has returned in which an append of a CSV raised, and
\* the ledger holds no row for that CSV.
C3_Witness ==
  \E p \in Procs :
    /\ Returned(p)
    /\ <<CsvA, "questions">> \in raised_on[p]
    /\ TableRows("brand_responses", CsvA).all > 0
    /\ LedgerRows(LedgerTable(survey_type[p]), CsvA) = 0

\* C4: a ledger check whose query failed answers "not processed", the CSV
\* is not listed as skipped, and its per-CSV block is entered.
C4_FailedCheckMeansUnprocessed ==
  \A p \in Procs :
    \A i \in 1..Len(checked[p]) :
      checked[p][i].raised =>
        /\ ~checked[p][i].answer
        /\ checked[p][i].name \notin Range(csv_files_skipped[p])
        /\ \/ checked[p][i].name \in parsed[p]
           \/ (idx[p] = i /\ pc[p] = "parse")

\* C4 witness: the query for a CSV that has a ledger row failed, and the
\* CSV was processed and its rows appended.
C4_Witness ==
  \E p \in Procs :
    /\ Returned(p)
    /\ \E i \in 1..Len(checked[p]) :
         /\ checked[p][i].raised
         /\ checked[p][i].name = CsvC
    /\ LedgerRows("processed_custom_surveys", CsvC) > 0
    /\ CsvC \in parsed[p]
    /\ "custom_responses" \in DOMAIN records_added[p]

\* mark_processed has returned for the key of the latest check / has
\* returned after appending its row.
MarkReturned == \E m \in marked :
  m.filename = last_check.filename /\ m.stype = last_check.stype

MarkWrote == \E m \in marked :
  m.filename = last_check.filename /\ m.stype = last_check.stype /\ m.wrote

C6_SkipChangesNothingElse ==
  [][\A p \in Procs :
       (Len(checked'[p]) = Len(checked[p]) + 1 /\ Last(checked'[p]).answer) =>
         /\ csv_files_skipped'[p] = Append(csv_files_skipped[p], Last(checked'[p]).name)
         /\ pc'[p] \in {"check", "done"}
         /\ parsed'[p] = parsed[p]
         /\ tables' = tables
         /\ ledger' = ledger
         /\ records_added'[p] = records_added[p]
         /\ tables_updated'[p] = tables_updated[p]
         /\ csv_files_processed'[p] = csv_files_processed[p]
         /\ ops'[p] = ops[p] \cup {"ledger_query"}]_vars

\* C6 witness: a CSV with a ledger row was checked, listed as skipped and
\* never parsed, and the run went on.
C6_Witness ==
  \E p \in Procs :
    /\ \E i \in 1..Len(checked[p]) :
         checked[p][i].answer /\ checked[p][i].name = CsvC
    /\ CsvC \in Range(csv_files_skipped[p])
    /\ CsvC \notin parsed[p]
    /\ "table_write" \notin ops[p]
    /\ Len(checked[p]) = 2

\* C7: in a run whose archive opened with at least one CSV, the CSVs are
\* checked one by one in archive order, each once; when the run is over it
\* has returned "success" (answered with 200), every CSV has been checked,
\* and every CSV the ledger did not report has been attempted.
C7_FileLevelFaultIsolation ==
  \A p \in Procs :
    csv_files[p] # <<>> =>
      /\ Len(checked[p]) <= Len(csv_files[p])
      /\ CheckedNames(p) = SubSeq(csv_files[p], 1, Len(checked[p]))
      /\ pc[p] = "done" =>
           /\ result[p].status = "success"
           /\ response[p].code = 200
           /\ CheckedNames(p) = csv_files[p]
           /\ \A i \in 1..Len(checked[p]) :
                ~checked[p][i].answer => checked[p][i].name \in parsed[p]

\* C7 witness: the first CSV of an archive raised, the second was attempted
\* after it, and the run returned.
C7_Witness ==
  \E p \in Procs :
    /\ Returned(p)
    /\ csv_files[p] = <<CsvBad, CsvA>>
    /\ <<CsvBad, "parse">> \in raised_on[p]
    /\ CsvA \in parsed[p]

\* The object unpacks to no CSV entry at all.
HasNoCsv(name) ==
  /\ name \in DOMAIN Bucket
  /\ Bucket[name].opens
  /\ CsvEntries(Bucket[name].entries) = <<>>

\* C8: a handling that unpacked an archive without any CSV entry ends with
\* status "error" and an error description, is answered with 500, and has
\* made no ledger query, no table append and no ledger write.
C8_EmptyArchiveFails ==
  \A p \in Procs :
    (pc[p] = "done" /\ "unpack" \in ops[p] /\ HasNoCsv(req[p].name)) =>
      /\ result[p].status = "error"
      /\ result[p].reason = "No CSV files found in ZIP"
      /\ response[p].code = 500
      /\ ops[p] \cap {"ledger_query", "table_write", "ledger_write"} = {}
      /\ checked[p] = <<>>
      /\ records_added[p] = NoRecords

\* C8 witness: the archive holding only a readme was unpacked and answered
\* with 500.
C8_Witness ==
  \E p \in Procs :
    /\ pc[p] = "done"
    /\ req[p].name = EmptyZip
    /\ "unpack" \in ops[p]
    /\ response[p].code = 500

\* Run q is past the ledger check of f and has not left its per-CSV block.
InFlight(q, f, stype) ==
  /\ pc[q] \in {"parse", "responses", "questions", "mark"}
  /\ Current(q) = f
  /\ survey_type[q] = stype

\* C9: nothing but the ledger rows decides a check: while another run is in
\* the middle of processing the same CSV (same survey type) and no ledger
\* row for it exists, the check of this run answers "not processed" and the
\* run goes on to process the CSV too.
C9_NoCrossRunExclusion ==
  [][\A p, q \in Procs :
       (/\ p # q
        /\ pc[p] = "check"
        /\ InFlight(q, Current(p), survey_type[p])
        /\ LedgerRows(LedgerTable(survey_type[p]), Current(p)) = 0
        /\ Len(checked'[p]) = Len(checked[p]) + 1) =>
         /\ ~Last(checked'[p]).answer
         /\ pc'[p] = "parse"]_vars

\* C9 witness: two runs of two different archives both got "not processed"
\* for the same CSV, neither has reached its ledger call's end, no ledger row
\* exists, and the rows of the CSV are in the response table and in the
\* question table twice.
C9_Witness ==
  \E p, q \in Procs :
    /\ p # q
    /\ req[p].name # req[q].name
    /\ pc[p] = "mark" /\ pc[q] = "mark"
    /\ Current(p) = CsvA /\ Current(q) = CsvA
    /\ ~Last(checked[p]).answer /\ ~Last(checked[q]).answer
    /\ LedgerRows("processed_brand_surveys", CsvA) = 0
    /\ TableRows("brand_responses", CsvA).all = 2 * Csv[CsvA].rows
    /\ TableRows("awareness", CsvA).all = 2 * Csv[CsvA].qrows

\* C10: an event for a key accepted less than 60 seconds before it is
\* answered with 200 and starts nothing (no storage, table or ledger
\* access, the cooldown map untouched); an event for a key never accepted,
\* or accepted 60 seconds or more before it, starts processing and becomes
\* the key's latest accepted event.  Only accepted events change the map.
C10_Cooldown ==
  [][/\ events' = events => recent_files' = recent_files
     /\ events' = events + 1 =>
          \A p \in Procs :
            (pc[p] = "idle" /\ pc'[p] # "idle"
               /\ req'[p].bucket # NoBucket /\ req'[p].name # NoName) =>
              IF /\ FileKey(req'[p]) \in DOMAIN recent_files
                 /\ now' - recent_files[FileKey(req'[p])] < 60
              THEN /\ response'[p] = [code |-> 200, kind |-> "duplicate"]
                   /\ pc'[p] = "done"
                   /\ ops'[p] = {}
                   /\ recent_files' = recent_files
                   /\ tables' = tables
                   /\ ledger' = ledger
              ELSE /\ pc'[p] = "fetch"
                   /\ FileKey(req'[p]) \in DOMAIN recent_files'
                   /\ recent_files'[FileKey(req'[p])] = now'
                   /\ \A k \in DOMAIN recent_files \ {FileKey(req'[p])} :
                        recent_files'[k] = recent_files[k]
     /\ \A p \in Procs :
          response'[p].kind = "duplicate" =>
            pc'[p] = "done" /\ ops'[p] = {} /\ checked'[p] = <<>>]_vars

\* C10 witness: an event came 59 seconds after the accepted event for its
\* key and was answered as a duplicate.
C10_Witness ==
  \E p \in Procs :
    /\ response[p].kind = "duplicate"
    /\ FileKey(req[p]) \in DOMAIN recent_files
    /\ now - recent_files[FileKey(req[p])] = 59

\* C11: when process_uploaded_file is given an object name that does not
\* end in ".zip", it returns status "skipped" with reason not_zip_file, the
\* front door answers 200, and the handling has made no storage access, no
\* unpacking, no table append and no ledger access.
C11_ZipGate ==
  [][\A p \in Procs :
       (pc[p] = "fetch" /\ pc'[p] # "fetch" /\ Last(req[p].name) # ".zip") =>
         /\ pc'[p] = "done"
         /\ result'[p] = [status |-> "skipped", reason |-> "not_zip_file"]
         /\ response'[p] = [code |-> 200, kind |-> "skipped"]
         /\ ops'[p] = {}
         /\ checked'[p] = <<>>
         /\ csv_files'[p] = <<>>
         /\ tables' = tables
         /\ ledger' = ledger]_vars

\* C11 witness: the event for notes.txt has been answered as skipped.
C11_Witness ==
  \E p \in Procs :
    /\ pc[p] = "done"
    /\ req[p].name = TextFile
    /\ result[p].status = "skipped"
    /\ response[p].code = 200

\* Some step of handler p can be taken.
CanStep(p) ==
  \/ \E storage \in FetchOutcomes : Fetch(p, storage)
  \/ Unpack(p)
  \/ \E up \in BOOLEAN : Check(p, up)
  \/ Parse(p)
  \/ \E outcome \in UploadOutcomes : UploadResponses(p, outcome)
  \/ \E outcome \in UploadOutcomes : UploadQuestion(p, outcome)
  \/ \E up \in BOOLEAN : Mark(p, up)

\* C12: a handling of the upload-event route never stops short of a
\* response, and the response it ends with is 200 for a processing result of
\* success or skipped and 500 for any other processing result and for an
\* exception inside the handler.
C12_AlwaysResponds ==
  \A p \in Procs :
    /\ pc[p] \notin {"idle", "done"} => ENABLED CanStep(p)
    /\ pc[p] = "done" =>
         /\ response[p].code \in {200, 400, 500}
         /\ result[p].status \in {"success", "skipped"} => response[p].code = 200
         /\ (result[p].status \notin {"success", "skipped", "none"}) => response[p].code = 500
         /\ response[p].kind = "internal" => response[p].code = 500
         /\ result[p].status = "none" =>
              response[p].kind \in {"bad_request", "duplicate", "internal"}

\* C12 witness: one handling ended in an exception inside the handler,
\* another with a failed processing result; both were answered with 500.
C12_Witness ==
  \E p, q \in Procs :
    /\ pc[p] = "done" /\ response[p] = [code |-> 500, kind |-> "internal"]
    /\ pc[q] = "done" /\ result[q].status = "error" /\ response[q].code = 500

\* C13: an event without a payload, without a bucket or without an object
\* name is answered with 400 and starts nothing: the cooldown map, the
\* tables and the ledger are unchanged and no operation of a collaborator
\* is made for it.
C13_MissingFieldsRejected ==
  [][/\ events' = events + 1 =>
          \A p \in Procs :
            (/\ pc[p] = "idle" /\ pc'[p] # "idle"
             /\ req'[p].json # "invalid"
             /\ (req'[p].json = "none" \/ req'[p].bucket = NoBucket
                    \/ req'[p].name = NoName)) =>
              /\ response'[p] = [code |-> 400, kind |-> "bad_request"]
              /\ pc'[p] = "done"
              /\ recent_files' = recent_files
              /\ tables' = tables
              /\ ledger' = ledger
              /\ ops'[p] = {}
              /\ result'[p] = NoResult
     /\ \A p \in Procs :
          response'[p].kind = "bad_request" =>
            pc'[p] = "done" /\ ops'[p] = {} /\ result'[p] = NoResult]_vars

\* C13 witness: an event without an object name was answered with 400 after
\* another event had been accepted, and the cooldown map holds that one only.
C13_Witness ==
  \E p \in Procs :
    /\ response[p] = [code |-> 400, kind |-> "bad_request"]
    /\ req[p].bucket = "surveys"
    /\ req[p].name = NoName
    /\ Cardinality(DOMAIN recent_files) = 1

\* The notification that matches a processing result.
KindOf(status) ==
  IF status = "success" THEN "success"
  ELSE IF status = "skipped" THEN "skipped" ELSE "failure"

\* C14: when process_uploaded_file has returned for a handling, the
\* notification channel has received a message of the matching kind
\* (success, failure or skipped).
C14_OutcomeNotified ==
  \A p \in Procs :
    (pc[p] = "done" /\ result[p].status # "none") =>
      \E i \in 1..Len(notifications) : notifications[i] = KindOf(result[p].status)

\* C15: a send_* call never raises and returns a boolean: False without
\* posting when the notifier is disabled, False when building the message or
\* the post raises, False when the webhook answers another status than 200,
\* and True only when the webhook answered 200.
C15_NotifyNeverRaises ==
  last_send.kind # "none" =>
    /\ ~last_send.raised
    /\ last_send.value \in BOOLEAN
    /\ ~last_send.enabled => (~last_send.value /\ ~last_send.posted)
    /\ last_send.value <=>
         (last_send.enabled /\ last_send.args = "well_formed" /\ last_send.transport = "200")

\* C15 witness: a message was accepted before, then the post of an enabled
\* notifier raised and the call returned False.
C15_Witness ==
  /\ last_send.enabled
  /\ last_send.transport = "raises"
  /\ last_send.posted
  /\ ~last_send.raised
  /\ ~last_send.value
  /\ Len(notifications) = 1

\* The fallback appends among the load_table calls of the latest upload.
FallbackCalls == {i \in 1..Len(last_upload.calls) : last_upload.calls[i].fallback}

\* C16: an upload_to_bigquery call of a non-empty frame whose first attempt
\* fails makes at most one more append, restricted to the essential columns
\* the frame has (exactly one when it has any); when that append goes
\* through the call returns the number of rows; when it fails, or the frame
\* has no essential column, the call raises the first exception and makes
\* no further attempt.  A first attempt that goes through is the only call.
C16_OneEssentialFallback ==
  (last_upload.first # "none" /\ last_upload.rows > 0) =>
    IF last_upload.first = "ok"
    THEN /\ Len(last_upload.calls) = 1
         /\ FallbackCalls = {}
         /\ ~last_upload.raised
         /\ last_upload.value = last_upload.rows
    ELSE /\ Cardinality(FallbackCalls) <= 1
         /\ Len(last_upload.calls) =
              Cardinality(FallbackCalls) + (IF last_upload.first = "load_raises" THEN 1 ELSE 0)
         /\ \A i \in FallbackCalls :
              /\ i = Len(last_upload.calls)
              /\ last_upload.calls[i].columns = last_upload.columns \cap EssentialColumns
         /\ (last_upload.columns \cap EssentialColumns # {}) => FallbackCalls # {}
         /\ (last_upload.columns \cap EssentialColumns = {}) => FallbackCalls = {}
         /\ (\E i \in FallbackCalls : last_upload.calls[i].ok) =>
              (~last_upload.raised /\ last_upload.value = last_upload.rows)
         /\ (\A i \in FallbackCalls : ~last_upload.calls[i].ok) =>
              (last_upload.raised /\ last_upload.error = "original")

\* C16 witness: both appends of a response frame failed: two calls, the
\* second with the essential columns only, and the first exception raised.
C16_Witness ==
  /\ last_upload.first = "load_raises"
  /\ last_upload.second = "load_raises"
  /\ last_upload.columns = ResponseColumns
  /\ Len(last_upload.calls) = 2
  /\ last_upload.calls[2].columns = EssentialColumns
  /\ last_upload.raised
  /\ last_upload.error = "original"

AggregatedRows == UNION {question_tables[t] : t \in DOMAIN question_tables}

\* C17: every row of every aggregated frame has count_response >= 1 and
\* Weighted_Response = session_weight * count_response, also when the
\* weight is the 1.0 given to a CSV without a Session Weight column.
C17_WeightedIsWeightTimesCount ==
  stage = "aggregated" =>
    \A r \in AggregatedRows :
      /\ r.count_response >= 1
      /\ ~r.session_weight.nan
      /\ ~r.Weighted_Response.nan
      /\ r.Weighted_Response.tenths = r.session_weight.tenths * r.count_response

\* C17 witness: a CSV without a Session Weight column gave an aggregated
\* row that counts two responses, with weight 1.0 and weighted response 2.0.
C17_Witness ==
  /\ stage = "aggregated"
  /\ ~sheet.weights
  /\ \E r \in AggregatedRows :
       /\ r.session_weight = DefaultWeight
       /\ r.count_response = 2
       /\ r.Weighted_Response = Weight(20)

\* The exploded rows of a question: the response rows with a valid answer,
\* one row per single answer value, brand names cleaned.
Exploded(q) ==
  LET question_data == ValidAnswers(responses, q.col)
      exploded == IF q.explode THEN split_and_explode(question_data, q.col, ";")
                  ELSE question_data
  IN  [i \in 1..Len(exploded) |-> [exploded[i] EXCEPT ![q.col] = clean_brand_name(@)]]

TableOf(t) == IF t \in DOMAIN question_tables THEN question_tables[t] ELSE {}

\* The aggregated rows of table t with the dimensions of r and the answer v.
RowsFor(t, r, v) ==
  {a \in TableOf(t) :
     /\ a.age = r.age /\ a.gender = r.gender /\ a.client_type = r.client_type
     /\ a.session_weight = r.session_weight /\ a.answer = v}

RECURSIVE SumCounts(_)
SumCounts(rows) ==
  IF rows = {} THEN 0
  ELSE LET r == CHOOSE r \in rows : TRUE
       IN  r.count_response + SumCounts(rows \ {r})

\* C18: for a brand tracker CSV in which every row has a session weight,
\* and for each question: every combination of dimensions and single answer
\* value among the exploded rows has exactly one aggregated row, whose
\* count_response is the number of exploded rows with that combination; and
\* the counts of the table add up to the number of exploded rows, rows with
\* a missing age, gender or client type included.
C18_ExplodeThenCount ==
  (/\ stage = "aggregated"
   /\ sheet.survey_type = "BRAND_TRACKER"
   /\ \A i \in 1..Len(responses) : ~responses[i].session_weight.nan) =>
    \A k \in 1..Len(question_mapping) :
      LET q == question_mapping[k]
          E == Exploded(q)
      IN  /\ \A i \in 1..Len(E) :
               /\ Cardinality(RowsFor(q.table, E[i], E[i][q.col])) = 1
               /\ \A a \in RowsFor(q.table, E[i], E[i][q.col]) :
                    a.count_response =
                      Cardinality({j \in 1..Len(E) :
                        /\ E[j].age = E[i].age /\ E[j].gender = E[i].gender
                        /\ E[j].client_type = E[i].client_type
                        /\ E[j].session_weight = E[i].session_weight
                        /\ E[j][q.col] = E[i][q.col]})
          /\ SumCounts(TableOf(q.table)) = Len(E)

\* The response rows whose raw answer in column col is neither null nor
\* empty.
Answered(col) == SelectSeq(responses, LAMBDA r : ~isna(r[col]) /\ r[col] # <<>>)

\* The frame t that the aggregation of the sheet's kind builds from df.
Aggregate(df, t) ==
  LET built == IF sheet.survey_type = "BRAND_TRACKER"
               THEN create_brand_question_tables(df)
               ELSE create_custom_question_tables(df)
  IN  IF t \in DOMAIN built THEN built[t] ELSE {}

\* The questions of the sheet's kind: the frame and the raw answer column.
Questions ==
  IF sheet.survey_type = "BRAND_TRACKER"
  THEN {[table |-> question_mapping[i].table, raw |-> question_mapping[i].col] :
          i \in 1..Len(question_mapping)}
  ELSE {[table |-> "top_of_mind", raw |-> "q1_answer"],
        [table |-> "knowledge", raw |-> "q2_answer"]}

\* C19: for each question, of a brand tracker and of a custom survey, the
\* response rows whose raw answer to the question is empty or null add no
\* row and no count to the question's frame: the frame is the one built
\* from the other response rows alone.
C19_EmptyAnswerNotCounted ==
  stage = "aggregated" =>
    \A q \in Questions : TableOf(q.table) = Aggregate(Answered(q.raw), q.table)

\* C20: a brand tracker CSV with the one row whose question-1 answer is
\* "gieco" and whose session weight is 1.0 gives one response row with
\* q1_answer "gieco" and an awareness frame with exactly one row: answer
\* "Geico", count_response 1, Weighted_Response 1.0.
C20_GiecoScenario ==
  (/\ stage = "aggregated"
   /\ sheet.survey_type = "BRAND_TRACKER"
   /\ sheet.weights
   /\ sheet.rows = <<BrandRow(<<"2", "5">>, Weight(10), <<"g", "i", "e", "c", "o">>, NaN)>>) =>
    /\ Len(responses) = 1
    /\ responses[1].q1_answer = <<"g", "i", "e", "c", "o">>
    /\ Cardinality(TableOf("awareness")) = 1
    /\ \A a \in TableOf("awareness") :
         /\ a.answer = <<"G", "e", "i", "c", "o">>
         /\ a.count_response = 1
         /\ a.Weighted_Response = Weight(10)

\* C21: for every brand of the brand table and every variant listed under
\* it, clean_brand_response of the variant is the brand.
C21_VariantGivesItsBrand ==
  cleaner_op = "clean_brand_response" =>
    \A i \in 1..Len(brand_patterns) :
      cleaner_in \in Range(brand_patterns[i].patterns) =>
        cleaned_answer = brand_patterns[i].brand

\* C22: clean_brand_response of every entry of the non-answer table, of the
\* empty string and of a null value is 'None/Unknown'.
C22_NonAnswerGivesNoAnswer ==
  (/\ cleaner_op = "clean_brand_response"
   /\ (cleaner_in \in Range(non_answer_patterns) \/ isna(cleaner_in) \/ cleaner_in = <<>>)) =>
    cleaned_answer = NoneUnknown

\* The labels of the pieces that are not blank and are no non-answer, in
\* the order of the pieces.
PieceLabels(pieces) ==
  LET kept == SelectSeq(pieces,
                LAMBDA x : ~Blank(x) /\ clean_brand_response(Strip(x)) # NoneUnknown)
  IN  [i \in 1..Len(kept) |-> clean_brand_response(Strip(kept[i]))]

\* C23: split_multiple_brands never returns an empty sequence; it returns
\* the labels of the pieces that are not blank and are no non-answer, in
\* input order, and ['None/Unknown'] when there is no such piece, so that
\* 'None/Unknown' is in the result only as its sole element.
C23_SplitNeverEmpty ==
  cleaner_op = "split_multiple_brands" =>
    /\ brand_list # <<>>
    /\ brand_list = IF PieceLabels(cleaner_pieces) = <<>> THEN <<NoneUnknown>>
                    ELSE PieceLabels(cleaner_pieces)
    /\ NoneUnknown \in Range(brand_list) => brand_list = <<NoneUnknown>>

\* C23 witness: an answer of two pieces, a non-answer and a misspelt brand,
\* gave the brand alone.
C23_Witness ==
  /\ cleaner_op = "split_multiple_brands"
  /\ cleaner_pieces = <<<<"i", "d", "k">>, <<"g", "i", "e", "c", "o", " ", "i", "n", "s">>>>
  /\ brand_list = <<<<"G", "e", "i", "c", "o">>>>

Unresolved(file_name) == extract_dma_from_filename(file_name) = NoDma

C25_StudyIdDeterministic ==
  /\ \A r \in study_ids :
       StudyDigits(r.csv_name) # NoMatch =>
         r.study_id = IdPrefix \o StudyDigits(r.csv_name)
  /\ \A r1, r2 \in study_ids :
       r1.csv_name = r2.csv_name => r1.study_id = r2.study_id

\* C26: a source row whose Session Weight is absent (no column, or an empty
\* cell) or is no number gives a response row with session_weight 1.0, and
\* the processing of its CSV does not fail.
C26_SessionWeightDefault ==
  stage \in {"processed", "aggregated", "failed"} =>
    /\ stage # "failed"
    /\ \A i \in 1..Len(sheet.rows) :
         (\/ ~sheet.weights
          \/ sheet.rows[i].SessionWeight = NaNWeight
          \/ Unparseable(sheet.rows[i].SessionWeight)) =>
           responses[i].session_weight = DefaultWeight

\* C27: an event is answered "duplicate event ignored" only when the earlier
\* event for the same bucket and key was processed or skipped: when the
\* earlier handling of the upload ended in a server error, the event that
\* is delivered again is not answered as a duplicate.
C27_FailedUploadProcessedAgain ==
  [][\A p, q \in Procs :
       (/\ pc[p] = "done" /\ response[p].code = 500
        /\ pc[q] = "idle" /\ pc'[q] = "done"
        /\ req'[q] = req[p])
       => response'[q].kind # "duplicate"]_vars

\* C28: a CSV whose processing fails in a run (it ends in neither
\* csv_files_processed nor csv_files_skipped) has had no append of the run
\* return: no row of it is in a table and no count of it in records_added.
C28_FailedCsvAddedNothing ==
  [][\A p \in Procs :
       (/\ pc[p] \in {"parse", "responses", "questions", "mark"}
        /\ raised_on'[p] # raised_on[p])
       => appends_done[p] = 0]_vars

\* C29: when upload_to_bigquery returns a row count for an aggregated
\* question frame, the append that went through carried the answer,
\* count_response and Weighted_Response columns of the frame.
C29_QuestionAppendKeepsAnswer ==
  (/\ last_upload.columns = QuestionColumns
   /\ ~last_upload.raised
   /\ last_upload.value > 0)
  => \E i \in 1..Len(last_upload.calls) :
       /\ last_upload.calls[i].ok
       /\ {"q1_answer", "count_response", "Weighted_Response"}
            \subseteq last_upload.calls[i].columns

\* C30: a mark_processed call never ends in an exception; when its append
\* fails it returns as after a written row and leaves the ledger as it was.
C30_MarkNeverPropagates ==
  [][\A m \in marked' \ marked :
       /\ ~m.raised
       /\ ~m.wrote => ledger' = ledger]_vars

\* C30 witness: a mark_processed call whose append failed has returned, and
\* the ledger holds no row for its key.
C30_Witness ==
  \E m \in marked :
    /\ ~m.wrote
    /\ ~m.raised
    /\ LedgerRows(LedgerTable(m.stype), m.filename) = 0

====
